---------------------------- MODULE Spec2Model ----------------------------
(***************************************************************************)
(* Model of src/script_verifiers.py: the heuristic analyzers, the hashtag  *)
(* engine, the virality blender and the report builder analyze_script     *)
(* with its optional remote evaluation.                                    *)
(* The direct calls also cover format_youtube_videos of                    *)
(* src/trend_result_formatter.py, and RunwaySpec models                    *)
(* generate_video_with_runway of src/video_tools.py.                       *)
(*                                                                         *)
(* Conventions.                                                            *)
(*  - Python str values are TLA+ strings; Char(s, i) is s[i-1].            *)
(*  - Python values that cross the JSON boundary are tagged records        *)
(*    [t |-> tag, v |-> payload] with tag in none, bool, int, float, str,  *)
(*    list, obj.  A float carries its value in thousandths (0.333 is 333). *)
(*  - round(x, n) and round(x) are round-half-even on the exact quotient.  *)
(*    The rounding error of binary floats is not modelled: where the exact *)
(*    value is a decimal tie, Python may round to the other neighbour.     *)
(***************************************************************************)
EXTENDS Integers, Sequences, FiniteSets, TLC

(***************************************************************************)
(* Bounds of the model.                                                    *)
(***************************************************************************)
\* a script is the concatenation of at most MaxChunks chunks of ScriptChunks
MaxChunks == 2

\* a script built from lexicon words holds at most MaxCount words of each kind
MaxCount == 4

\* a candidate list passed to _sanitize_hashtags holds at most MaxTags entries
MaxTags == 3

\* a list passed to format_youtube_videos holds at most MaxVideos records
MaxVideos == 2

\* a banned list passed to brand_safety, and the script checked against it, hold at most
\* MaxBanned entries
MaxBanned == 2

\* a script passed to readability has at most MaxReadWords words and MaxReadChars
\* letters
MaxReadWords == 6

MaxReadChars == 20

\* a call of generate_video_with_runway is followed for at most MaxPolls passes of its
\* polling loop
MaxPolls == 3

\* the first sentence of a script passed to measure_hook_strength has at most MaxHookWords words
MaxHookWords == 25

(***************************************************************************)
(* Characters and Python's str methods.                                    *)
(***************************************************************************)
Char(s, i) == SubSeq(s, i, i)

CharsOf(s) == {Char(s, i) : i \in 1..Len(s)}

UPPER == "ABCDEFGHIJKLMNOPQRSTUVWXYZ"

LOWER == "abcdefghijklmnopqrstuvwxyz"

DIGITS == "0123456789"

\* the printable ASCII characters in code-point order (without the quote, the backslash and the backtick)
ASCII == " !#$%&'()*+,-./0123456789:;<=>?@ABCDEFGHIJKLMNOPQRSTUVWXYZ[]^_abcdefghijklmnopqrstuvwxyz{|}~"

UpperSet == CharsOf(UPPER)

LowerSet == CharsOf(LOWER)

DigitSet == CharsOf(DIGITS)

\* the characters matched by \s
WS == {" ", "\t", "\n"}

LowerOf == [c \in UpperSet |-> Char(LOWER, CHOOSE i \in 1..26 : Char(UPPER, i) = c)]

Ord == [c \in CharsOf(ASCII) |-> CHOOSE i \in 1..Len(ASCII) : Char(ASCII, i) = c]

RECURSIVE Join(_)
\* "".join(parts), by halving so that long texts do not nest deeply
Join(parts) ==
    IF Len(parts) = 0 THEN ""
    ELSE IF Len(parts) = 1 THEN parts[1]
    ELSE LET h == Len(parts) \div 2
         IN Join(SubSeq(parts, 1, h)) \o Join(SubSeq(parts, h + 1, Len(parts)))

\* str.lower()
lower(s) ==
    Join([i \in 1..Len(s) |-> IF Char(s, i) \in UpperSet THEN LowerOf[Char(s, i)] ELSE Char(s, i)])

\* str.lstrip(chars)
lstrip_chars(s, chars) ==
    IF \A i \in 1..Len(s) : Char(s, i) \in chars THEN ""
    ELSE LET first == CHOOSE i \in 1..Len(s) :
                         Char(s, i) \notin chars /\ \A j \in 1..(i - 1) : Char(s, j) \in chars
         IN SubSeq(s, first, Len(s))

\* str.rstrip(chars)
rstrip_chars(s, chars) ==
    IF \A i \in 1..Len(s) : Char(s, i) \in chars THEN ""
    ELSE LET last == CHOOSE i \in 1..Len(s) :
                        Char(s, i) \notin chars /\ \A j \in (i + 1)..Len(s) : Char(s, j) \in chars
         IN SubSeq(s, 1, last)

\* str.strip()
strip(s) == lstrip_chars(rstrip_chars(s, WS), WS)

\* p in text
Contains(text, p) ==
    \E i \in 1..(Len(text) - Len(p) + 1) : SubSeq(text, i, i + Len(p) - 1) = p

\* str.isalpha()
isalpha(s) == s # "" /\ \A i \in 1..Len(s) : Char(s, i) \in (UpperSet \cup LowerSet)

\* re.sub(r"\s+", rep, s): every maximal run of whitespace becomes rep
re_sub_ws(s, rep) ==
    Join([i \in 1..Len(s) |->
            IF Char(s, i) \in WS
            THEN (IF i > 1 /\ Char(s, i - 1) \in WS THEN "" ELSE rep)
            ELSE Char(s, i)])

\* KeepChars as re.sub(..., count=1): only the first run of other characters goes
KeepChars_FirstRunOnly(s, keep) ==
    IF \A i \in 1..Len(s) : Char(s, i) \in keep THEN s
    ELSE LET first == CHOOSE i \in 1..Len(s) :
                         Char(s, i) \notin keep /\ \A j \in 1..(i - 1) : Char(s, j) \in keep
             last == CHOOSE i \in first..Len(s) :
                         /\ \A j \in first..i : Char(s, j) \notin keep
                         /\ i = Len(s) \/ Char(s, i + 1) \in keep
         IN SubSeq(s, 1, first - 1) \o SubSeq(s, last + 1, Len(s))

\* re.sub(r"[^keep]+", "", s): only the characters of the class keep remain
KeepChars(s, keep) ==
    Join([i \in 1..Len(s) |-> IF Char(s, i) \in keep THEN Char(s, i) ELSE ""])

\* the positions 1..Len(s), in order
Positions(s) == [i \in 1..Len(s) |-> i]

\* re.findall(r"[cls]+", s): the maximal runs of characters of class cls, in order
Runs(s, cls) ==
    LET starts == SelectSeq(Positions(s),
                     LAMBDA i : Char(s, i) \in cls /\ (i = 1 \/ Char(s, i - 1) \notin cls))
        ends == SelectSeq(Positions(s),
                     LAMBDA i : Char(s, i) \in cls /\ (i = Len(s) \/ Char(s, i + 1) \notin cls))
    IN [k \in 1..Len(starts) |-> SubSeq(s, starts[k], ends[k])]

\* re.split(r"[seps]+", s): the pieces between the maximal runs of separators;
\* a piece is empty only before a leading or after a trailing separator
Split(s, seps) ==
    (IF s = "" \/ Char(s, 1) \in seps THEN <<"">> ELSE <<>>)
    \o Runs(s, CharsOf(s) \ seps)
    \o (IF s # "" /\ Char(s, Len(s)) \in seps THEN <<"">> ELSE <<>>)

\* re.split(r"[seps]", s): every separator character ends a piece
SplitEach(s, seps) ==
    LET cuts == <<0>> \o SelectSeq(Positions(s), LAMBDA i : Char(s, i) \in seps) \o <<Len(s) + 1>>
    IN [k \in 1..(Len(cuts) - 1) |-> SubSeq(s, cuts[k] + 1, cuts[k + 1] - 1)]

\* lexicographic order of str by code point
StrLess(a, b) ==
    \E i \in 1..Len(b) :
        /\ \A j \in 1..(i - 1) : j <= Len(a) /\ Char(a, j) = Char(b, j)
        /\ (i > Len(a) \/ (Char(a, i) # Char(b, i) /\ Ord[Char(a, i)] < Ord[Char(b, i)]))

RECURSIVE Sorted(_)
\* sorted(S) for a set of str
Sorted(S) ==
    IF S = {} THEN <<>>
    ELSE LET m == CHOOSE x \in S : \A y \in S \ {x} : StrLess(x, y)
         IN <<m>> \o Sorted(S \ {m})

Count(sq, S) == Len(SelectSeq(sq, LAMBDA w : w \in S))

RECURSIVE SumLen(_)
\* sum(len(w) for w in sq)
SumLen(sq) ==
    IF Len(sq) = 0 THEN 0
    ELSE IF Len(sq) = 1 THEN Len(sq[1])
    ELSE LET h == Len(sq) \div 2
         IN SumLen(SubSeq(sq, 1, h)) + SumLen(SubSeq(sq, h + 1, Len(sq)))

Min(a, b) == IF a < b THEN a ELSE b

Max(a, b) == IF a > b THEN a ELSE b

\* n / d rounded to the nearest integer, ties to even (d > 0)
RoundDiv(n, d) ==
    LET q == n \div d
        r == n - q * d
    IN IF 2 * r < d THEN q
       ELSE IF 2 * r > d THEN q + 1
       ELSE IF q % 2 = 0 THEN q ELSE q + 1

(***************************************************************************)
(* Tagged Python values.                                                   *)
(***************************************************************************)
PyNone == [t |-> "none", v |-> 0]

PyBool(b) == [t |-> "bool", v |-> b]

PyInt(n) == [t |-> "int", v |-> n]

\* a float, given in thousandths
PyFloat(m) == [t |-> "float", v |-> m]

PyStr(s) == [t |-> "str", v |-> s]

PyList(sq) == [t |-> "list", v |-> sq]

PyDict(f) == [t |-> "obj", v |-> f]

EmptyDict == PyDict(<<>>)

StrList(sq) == PyList([i \in 1..Len(sq) |-> PyStr(sq[i])])

\* bool(x)
Truthy(x) ==
    CASE x.t = "none" -> FALSE
      [] x.t = "bool" -> x.v
      [] x.t \in {"int", "float"} -> x.v # 0
      [] x.t = "str" -> x.v # ""
      [] x.t = "list" -> x.v # <<>>
      [] x.t = "obj" -> DOMAIN x.v # {}

\* d.get(k, default) on a dict d
DictGet(d, k, default) == IF k \in DOMAIN d.v THEN d.v[k] ELSE default

\* the mapping f without the key k
Without(f, k) == [j \in DOMAIN f \ {k} |-> f[j]]

\* the mapping f with f[k] = x
With(f, k, x) == [j \in DOMAIN f \cup {k} |-> IF j = k THEN x ELSE f[j]]

\* d with d[k] = x
DictSet(d, k, x) == PyDict(With(d.v, k, x))

(***************************************************************************)
(* Lexicon tables.                                                         *)
(***************************************************************************)
POWER_HOOKS ==
    {"what if", "did you know", "here's why", "stop", "warning",
     "the secret", "nobody tells you", "don't make this mistake",
     "3 things", "top 5", "you won't believe", "the truth"}

CTA_PHRASES ==
    {"subscribe", "follow", "like this", "comment", "share",
     "click the link", "link in bio", "check the description",
     "try this", "save this", "watch till the end"}

TOXIC_KEYWORDS ==
    {"idiot", "stupid", "dumb", "hate", "kill", "trash", "loser",
     "shut up", "moron", "racist", "sexist", "terrorist"}

PROFANITY == {"fuck", "shit", "bitch", "asshole", "bastard", "dick", "cunt"}

POSITIVE_WORDS ==
    {"amazing", "great", "awesome", "love", "win", "success", "powerful",
     "easy", "simple", "best", "boost", "growth", "viral", "smart"}

NEGATIVE_WORDS ==
    {"bad", "worst", "hate", "fail", "hard", "problem", "risk",
     "danger", "scam", "loss", "decline"}

(***************************************************************************)
(* Text normalizer.                                                        *)
(***************************************************************************)
\* text or ""
OrEmpty(text) == IF text.t = "str" THEN text.v ELSE ""

\* _normalize with str(text) in place of text or ""
_normalize_StrOfText(text) ==
    strip(re_sub_ws(IF text.t = "str" THEN text.v ELSE "None", " "))

_normalize(text) == strip(re_sub_ws(OrEmpty(text), " "))

\* _lower_words with the space in the class of the pattern
_lower_words_KeepsSpaces(text) ==
    Runs(lower(text), LowerSet \cup UpperSet \cup DigitSet \cup {"'", " "})

_lower_words(text) == Runs(lower(text), LowerSet \cup UpperSet \cup DigitSet \cup {"'"})

_sentences(text) ==
    LET pieces == Split(text, {".", "!", "?"})
        stripped == [i \in 1..Len(pieces) |-> strip(pieces[i])]
    IN SelectSeq(stripped, LAMBDA s : s # "")

(***************************************************************************)
(* Heuristic analyzers.  Each takes the script as a str and returns the    *)
(* dict the Python function returns.                                       *)
(***************************************************************************)
\* analyze_toxicity without the cap of the score at 1.0
analyze_toxicity_NoCap(script) ==
    LET words == _lower_words(script)
        toxic_hits == SelectSeq(words, LAMBDA w : w \in TOXIC_KEYWORDS \/ w \in PROFANITY)
    IN PyDict([score |-> PyFloat(RoundDiv(1000 * Len(toxic_hits), 3)), hits |-> StrList(toxic_hits)])

analyze_toxicity(script) ==
    LET words == _lower_words(script)
        toxic_hits == SelectSeq(words, LAMBDA w : w \in TOXIC_KEYWORDS \/ w \in PROFANITY)
        \* min(1.0, len(toxic_hits) / 3.0), rounded to 3 places
        score == RoundDiv(1000 * Min(3, Len(toxic_hits)), 3)
    IN PyDict([score |-> PyFloat(score), hits |-> StrList(toxic_hits)])

\* analyze_sentiment with the labels' thresholds at 0.1 and -0.1
analyze_sentiment_LowThreshold(script) ==
    LET words == _lower_words(script)
        pos == Count(words, POSITIVE_WORDS)
        neg == Count(words, NEGATIVE_WORDS)
        total == Max(1, pos + neg)
        label == IF 10 * (pos - neg) > total THEN "positive"
                 ELSE IF 10 * (pos - neg) < -total THEN "negative"
                 ELSE "neutral"
    IN PyDict([score |-> PyFloat(RoundDiv(1000 * (pos - neg), total)),
               label |-> PyStr(label), pos |-> PyInt(pos), neg |-> PyInt(neg)])

analyze_sentiment(script) ==
    LET words == _lower_words(script)
        pos == Count(words, POSITIVE_WORDS)
        neg == Count(words, NEGATIVE_WORDS)
        total == Max(1, pos + neg)
        \* sentiment = (pos - neg) / total; sentiment > 0.15 iff 100*(pos-neg) > 15*total
        label == IF 100 * (pos - neg) > 15 * total THEN "positive"
                 ELSE IF 100 * (pos - neg) < -15 * total THEN "negative"
                 ELSE "neutral"
    IN PyDict([score |-> PyFloat(RoundDiv(1000 * (pos - neg), total)),
               label |-> PyStr(label), pos |-> PyInt(pos), neg |-> PyInt(neg)])

\* detect_cta that looks for the phrases among the tokens of the script
detect_cta_AmongTokens(script, order) ==
    LET words == _lower_words(script)
        hits == SelectSeq(order, LAMBDA p : \E i \in DOMAIN words : words[i] = p)
    IN PyDict([present |-> PyBool(hits # <<>>), phrases |-> StrList(hits)])

detect_cta(script, order) ==
    LET text == lower(script)
        \* order is the iteration order of the set CTA_PHRASES in this process
        hits == SelectSeq(order, LAMBDA p : Contains(text, p))
    IN PyDict([present |-> PyBool(hits # <<>>), phrases |-> StrList(hits)])

\* measure_hook_strength that looks for the power phrases in the whole script
measure_hook_strength_WholeScript(script) ==
    LET first_sentence == _sentences(script)
        first == IF first_sentence # <<>> THEN lower(first_sentence[1]) ELSE ""
        power_hits == Cardinality({ph \in POWER_HOOKS : Contains(lower(script), ph)})
        length_words == Len(_lower_words(first))
        length_score == IF 4 <= length_words /\ length_words <= 16 THEN 10
                        ELSE IF length_words <= 24 THEN 5 ELSE 2
        score == Max(0, Min(1000, 60 * length_score + 400 * (IF power_hits # 0 THEN 1 ELSE 0)))
    IN PyDict([score |-> PyFloat(score), first_sentence |-> PyStr(first),
               power_hits |-> PyInt(power_hits)])

measure_hook_strength(script) ==
    LET first_sentence == _sentences(script)
        first == IF first_sentence # <<>> THEN lower(first_sentence[1]) ELSE ""
        power_hits == Cardinality({ph \in POWER_HOOKS : Contains(first, ph)})
        length_words == Len(_lower_words(first))
        \* length_score in tenths
        length_score == IF 4 <= length_words /\ length_words <= 16 THEN 10
                        ELSE IF length_words <= 24 THEN 5 ELSE 2
        score == Max(0, Min(1000, 60 * length_score + 400 * (IF power_hits # 0 THEN 1 ELSE 0)))
    IN PyDict([score |-> PyFloat(score), first_sentence |-> PyStr(first),
               power_hits |-> PyInt(power_hits)])

readability(script) ==
    LET words == _lower_words(script)
        sentences == _sentences(script)
        num_words == Max(1, Len(words))
        num_sentences == Max(1, Len(sentences))
        chars == SumLen(words)
        \* 1000 * (1.2 - (num_words/num_sentences)/25 - (chars/num_words)/8) = num / den
        num == 1200 * num_sentences * num_words - 40 * num_words * num_words
               - 125 * chars * num_sentences
        den == num_sentences * num_words
        cnum == Max(0, Min(1000 * den, num))
        \* in doubles 1.2 - 3 / 25.0 - 6 / 8.0 is 0.33000000000000007, above the
        \* double 0.33; the other exact ties of scripts under 45 words compare as
        \* the exact values do
        above_third == num_words = 3 * num_sentences /\ chars = 6 * num_words
        level == IF cnum > 660 * den THEN "easy"
                 ELSE IF cnum > 330 * den \/ above_third THEN "medium" ELSE "hard"
    IN PyDict([ease |-> PyFloat(RoundDiv(cnum, den)),
               level |-> PyStr(level),
               avg_words_per_sentence |-> PyFloat(10 * RoundDiv(100 * num_words, num_sentences)),
               avg_chars_per_word |-> PyFloat(10 * RoundDiv(100 * chars, num_words))])

\* brand_safety that lower-cases each term before it looks for it
brand_safety_LowersTerms(script, banned_list) ==
    LET banned == banned_list \cup PROFANITY
        text == lower(script)
        hits == Sorted({w \in banned : Contains(text, lower(w))})
    IN PyDict([safe |-> PyBool(Len(hits) = 0), hits |-> StrList(hits)])

brand_safety(script, banned_list) ==
    LET banned == banned_list \cup PROFANITY
        text == lower(script)
        hits == Sorted({w \in banned : Contains(text, w)})
    IN PyDict([safe |-> PyBool(Len(hits) = 0), hits |-> StrList(hits)])

\* the matches of \b[A-Z]{2,}\b: the maximal runs of \w characters that are
\* two or more capital letters and nothing else
AllCapsWords(script) ==
    SelectSeq(Runs(script, UpperSet \cup LowerSet \cup DigitSet \cup {"_"}),
              LAMBDA w : Len(w) >= 2 /\ \A i \in 1..Len(w) : Char(w, i) \in UpperSet)

\* platform_guidelines whose length range excludes target_max
platform_guidelines_BelowMax(script, platform) ==
    LET words == _lower_words(script)
        tokens == Len(words)
        caps == Len(AllCapsWords(script))
        den == Max(1, Len(words))
        profanity_hits == SelectSeq(words, LAMBDA w : w \in PROFANITY)
        target_min == IF platform = "youtube_shorts" THEN 20 ELSE 15
        target_max == IF platform = "youtube_shorts" THEN 55 ELSE 70
        within_length == target_min <= tokens /\ tokens < target_max
        minimal_caps == 100 * caps < 5 * den
        no_profanity == Len(profanity_hits) = 0
    IN PyDict([platform |-> PyStr(platform),
               compliant |-> PyBool(within_length /\ minimal_caps /\ no_profanity),
               length_tokens |-> PyInt(tokens),
               within_length |-> PyBool(within_length),
               all_caps_ratio |-> PyFloat(RoundDiv(1000 * caps, den)),
               minimal_caps |-> PyBool(minimal_caps),
               profanity_hits |-> StrList(profanity_hits),
               no_profanity |-> PyBool(no_profanity)])

\* platform_guidelines whose compliant leaves no_profanity out
platform_guidelines_CompliantIgnoresProfanity(script, platform) ==
    LET words == _lower_words(script)
        tokens == Len(words)
        caps == Len(AllCapsWords(script))
        den == Max(1, Len(words))
        profanity_hits == SelectSeq(words, LAMBDA w : w \in PROFANITY)
        target_min == IF platform = "youtube_shorts" THEN 20 ELSE 15
        target_max == IF platform = "youtube_shorts" THEN 55 ELSE 70
        within_length == target_min <= tokens /\ tokens <= target_max
        minimal_caps == 100 * caps < 5 * den
        no_profanity == Len(profanity_hits) = 0
    IN PyDict([platform |-> PyStr(platform),
               compliant |-> PyBool(within_length /\ minimal_caps),
               length_tokens |-> PyInt(tokens),
               within_length |-> PyBool(within_length),
               all_caps_ratio |-> PyFloat(RoundDiv(1000 * caps, den)),
               minimal_caps |-> PyBool(minimal_caps),
               profanity_hits |-> StrList(profanity_hits),
               no_profanity |-> PyBool(no_profanity)])

platform_guidelines(script, platform) ==
    LET words == _lower_words(script)
        tokens == Len(words)
        caps == Len(AllCapsWords(script))
        den == Max(1, Len(words))
        profanity_hits == SelectSeq(words, LAMBDA w : w \in PROFANITY)
        target_min == IF platform = "youtube_shorts" THEN 20 ELSE 15
        target_max == IF platform = "youtube_shorts" THEN 55 ELSE 70
        within_length == target_min <= tokens /\ tokens <= target_max
        \* all_caps_ratio < 0.05
        minimal_caps == 100 * caps < 5 * den
        no_profanity == Len(profanity_hits) = 0
    IN PyDict([platform |-> PyStr(platform),
               compliant |-> PyBool(within_length /\ minimal_caps /\ no_profanity),
               length_tokens |-> PyInt(tokens),
               within_length |-> PyBool(within_length),
               all_caps_ratio |-> PyFloat(RoundDiv(1000 * caps, den)),
               minimal_caps |-> PyBool(minimal_caps),
               profanity_hits |-> StrList(profanity_hits),
               no_profanity |-> PyBool(no_profanity)])

vocabulary_diversity(script) ==
    LET words == SelectSeq(_lower_words(script), isalpha)
        unique == Cardinality({words[i] : i \in 1..Len(words)})
        total == Max(1, Len(words))
    IN PyDict([diversity |-> PyFloat(RoundDiv(1000 * unique, total)),
               unique |-> PyInt(unique), total |-> PyInt(total)])

\* tone_classification whose label is the last active label
tone_classification_LastActive(script) ==
    LET text == lower(script)
        any(ps) == \E p \in ps : Contains(text, p)
        labels == << <<"persuasive", any({"you", "now", "today", "must", "need to", "cta"})>>,
                     <<"informative", any({"how to", "steps", "tip", "learn", "guide", "why"})>>,
                     <<"entertaining", any({"funny", "joke", "crazy", "wild", "insane", "wow"})>>,
                     <<"story", any({"story", "once", "i was", "we were", "learned"})>> >>
        flagged == SelectSeq(labels, LAMBDA l : l[2])
        active == [i \in 1..Len(flagged) |-> flagged[i][1]]
        label == IF active # <<>> THEN active[Len(active)] ELSE "neutral"
    IN PyDict([label |-> PyStr(label), candidates |-> StrList(active)])

tone_classification(script) ==
    LET text == lower(script)
        any(ps) == \E p \in ps : Contains(text, p)
        labels == << <<"persuasive", any({"you", "now", "today", "must", "need to", "cta"})>>,
                     <<"informative", any({"how to", "steps", "tip", "learn", "guide", "why"})>>,
                     <<"entertaining", any({"funny", "joke", "crazy", "wild", "insane", "wow"})>>,
                     <<"story", any({"story", "once", "i was", "we were", "learned"})>> >>
        flagged == SelectSeq(labels, LAMBDA l : l[2])
        active == [i \in 1..Len(flagged) |-> flagged[i][1]]
        label == IF active # <<>> THEN active[1] ELSE "neutral"
    IN PyDict([label |-> PyStr(label), candidates |-> StrList(active)])

(***************************************************************************)
(* Virality blender.                                                       *)
(***************************************************************************)
\* ViralityBase with the weights of readability and vocabulary exchanged
ViralityBase_SwappedWeights(script, order) ==
    LET tox == analyze_toxicity(script).v.score.v
        sent == analyze_sentiment(script).v.score.v
        hook == measure_hook_strength(script).v.score.v
        cta == IF detect_cta(script, order).v.present.v THEN 1000 ELSE 0
        read == readability(script).v.ease.v
        vocab == vocabulary_diversity(script).v.diversity.v
    IN 25 * hook + 10 * (1000 + sent) + 15 * cta + 15 * read + 20 * vocab + 5 * (1000 - tox)

\* 100000 * base, the weighted sum of the component scores (in thousandths)
ViralityBase(script, order) ==
    LET tox == analyze_toxicity(script).v.score.v
        sent == analyze_sentiment(script).v.score.v
        hook == measure_hook_strength(script).v.score.v
        cta == IF detect_cta(script, order).v.present.v THEN 1000 ELSE 0
        read == readability(script).v.ease.v
        vocab == vocabulary_diversity(script).v.diversity.v
    IN 25 * hook + 10 * (1000 + sent) + 15 * cta + 20 * read + 15 * vocab + 5 * (1000 - tox)

\* virality_score scaling the clamped base by 1000 instead of 100
virality_score_PerMille(script, order) ==
    PyDict([score |-> PyInt(RoundDiv(Max(0, Min(100000, ViralityBase(script, order))), 100))])

virality_score(script, order) ==
    LET score_0_100 == RoundDiv(Max(0, Min(100000, ViralityBase(script, order))), 1000)
    IN PyDict([score |-> PyInt(score_0_100)])

(***************************************************************************)
(* Hashtag suggestion engine.                                              *)
(***************************************************************************)
\* the outcome of a call that may raise
Returned(x) == [raised |-> FALSE, val |-> x]

Raised == [raised |-> TRUE, val |-> PyNone]

\* "for tag in tags" is defined for a list, a str (its characters) and a dict
\* (its keys; the model's dicts in this position have at most one key)
Iterable(x) == x.t \in {"list", "str", "obj"}

Iterate(x) ==
    CASE x.t = "list" -> x.v
      [] x.t = "str" -> [i \in 1..Len(x.v) |-> PyStr(Char(x.v, i))]
      [] x.t = "obj" -> LET keys == Sorted(DOMAIN x.v)
                        IN [i \in 1..Len(keys) |-> PyStr(keys[i])]

RECURSIVE sanitize_loop(_, _, _, _)
\* the for loop of _sanitize_hashtags over the remaining tags
sanitize_loop(tags, max_tags, cleaned, seen) ==
    IF tags = <<>> THEN cleaned
    ELSE LET tag == Head(tags)
             rest == Tail(tags)
             t0 == strip(tag.v)
             t1 == IF Char(t0, 1) = "#" THEN t0 ELSE "#" \o t0
             t2 == re_sub_ws(t1, "")
             t == "#" \o KeepChars(lstrip_chars(t2, {"#"}),
                                   UpperSet \cup LowerSet \cup DigitSet \cup {"_"})
         IN IF tag.t # "str" THEN sanitize_loop(rest, max_tags, cleaned, seen)
            ELSE IF t0 = "" THEN sanitize_loop(rest, max_tags, cleaned, seen)
            ELSE IF Len(t) <= 1 THEN sanitize_loop(rest, max_tags, cleaned, seen)
            ELSE IF lower(t) \in seen THEN sanitize_loop(rest, max_tags, cleaned, seen)
            ELSE IF Len(cleaned) + 1 >= max_tags THEN Append(cleaned, t)
            ELSE sanitize_loop(rest, max_tags, Append(cleaned, t), seen \cup {lower(t)})

RECURSIVE sanitize_loop_SeenAsSpelled(_, _, _, _)
\* the for loop with seen.add(t) in place of seen.add(t.lower())
sanitize_loop_SeenAsSpelled(tags, max_tags, cleaned, seen) ==
    IF tags = <<>> THEN cleaned
    ELSE LET tag == Head(tags)
             rest == Tail(tags)
             t0 == strip(tag.v)
             t1 == IF Char(t0, 1) = "#" THEN t0 ELSE "#" \o t0
             t2 == re_sub_ws(t1, "")
             t == "#" \o KeepChars(lstrip_chars(t2, {"#"}),
                                   UpperSet \cup LowerSet \cup DigitSet \cup {"_"})
         IN IF tag.t # "str" THEN sanitize_loop_SeenAsSpelled(rest, max_tags, cleaned, seen)
            ELSE IF t0 = "" THEN sanitize_loop_SeenAsSpelled(rest, max_tags, cleaned, seen)
            ELSE IF Len(t) <= 1 THEN sanitize_loop_SeenAsSpelled(rest, max_tags, cleaned, seen)
            ELSE IF lower(t) \in seen THEN sanitize_loop_SeenAsSpelled(rest, max_tags, cleaned, seen)
            ELSE IF Len(cleaned) + 1 >= max_tags THEN Append(cleaned, t)
            ELSE sanitize_loop_SeenAsSpelled(rest, max_tags, Append(cleaned, t), seen \cup {t})

\* _sanitize_hashtags whose seen set holds the tags as spelled
_sanitize_hashtags_SeenAsSpelled(tags, max_tags) ==
    IF Iterable(tags) THEN Returned(sanitize_loop_SeenAsSpelled(Iterate(tags), max_tags, <<>>, {}))
    ELSE Raised

\* tags is any Python value; iterating a value that is not iterable raises TypeError
_sanitize_hashtags(tags, max_tags) ==
    IF Iterable(tags) THEN Returned(sanitize_loop(Iterate(tags), max_tags, <<>>, {}))
    ELSE Raised

\* _heuristic_hashtag_suggestions with the final cap at 5
_heuristic_hashtag_suggestions_CapFive(topic, sentiment_label) ==
    LET cleaned == re_sub_ws(OrEmpty(topic), "")
        base == <<"#Shorts", "#viral", "#fyp">>
                \o (IF Truthy(topic) /\ cleaned # "" THEN <<"#" \o cleaned>> ELSE <<>>)
                \o (IF sentiment_label = "positive" THEN <<"#growth", "#success">>
                    ELSE IF sentiment_label = "negative" THEN <<"#lessons", "#truth">>
                    ELSE <<"#learn", "#tips">>)
    IN _sanitize_hashtags(StrList(base), 5).val

_heuristic_hashtag_suggestions(topic, sentiment_label) ==
    LET cleaned == re_sub_ws(OrEmpty(topic), "")
        base == <<"#Shorts", "#viral", "#fyp">>
                \o (IF Truthy(topic) /\ cleaned # "" THEN <<"#" \o cleaned>> ELSE <<>>)
                \o (IF sentiment_label = "positive" THEN <<"#growth", "#success">>
                    ELSE IF sentiment_label = "negative" THEN <<"#lessons", "#truth">>
                    ELSE <<"#learn", "#tips">>)
    IN _sanitize_hashtags(StrList(base), 6).val

(***************************************************************************)
(* The remote collaborator.  A reply of openai.ChatCompletion.create is    *)
(* an exception, a content that json.loads rejects, or a content that is   *)
(* the JSON encoding of a value.                                           *)
(***************************************************************************)
RemoteRaise == [kind |-> "raise", text |-> "", value |-> PyNone]

RemoteText(text) == [kind |-> "text", text |-> text, value |-> PyNone]

RemoteJson(value) == [kind |-> "json", text |-> "", value |-> value]

\* json.loads(content)
json_loads(reply) == IF reply.kind = "json" THEN Returned(reply.value) ELSE Raised

\* llm_hashtag_suggestions whose fallback splits the content on commas only
llm_hashtag_suggestions_CommasOnly(topic, sentiment_label, max_tags, api_key, reply) ==
    IF ~api_key
    THEN [sent |-> FALSE, ret |-> _heuristic_hashtag_suggestions(topic, sentiment_label)]
    ELSE LET parsed == json_loads(reply)
             parts == SplitEach(strip(reply.text), {","})
             stripped == [i \in 1..Len(parts) |-> strip(parts[i])]
             tags == IF parsed.raised
                     THEN StrList(SelectSeq(stripped, LAMBDA q : q # ""))
                     ELSE parsed.val
             out == _sanitize_hashtags(tags, max_tags)
         IN [sent |-> TRUE,
             ret |-> IF reply.kind = "raise" \/ out.raised
                     THEN _heuristic_hashtag_suggestions(topic, sentiment_label)
                     ELSE out.val]

\* returns the list and whether a request was sent
llm_hashtag_suggestions(topic, sentiment_label, max_tags, api_key, reply) ==
    IF ~api_key
    THEN [sent |-> FALSE, ret |-> _heuristic_hashtag_suggestions(topic, sentiment_label)]
    ELSE LET parsed == json_loads(reply)
             parts == SplitEach(strip(reply.text), {"\n", ","})
             stripped == [i \in 1..Len(parts) |-> strip(parts[i])]
             tags == IF parsed.raised
                     THEN StrList(SelectSeq(stripped, LAMBDA q : q # ""))
                     ELSE parsed.val
             out == _sanitize_hashtags(tags, max_tags)
         IN [sent |-> TRUE,
             ret |-> IF reply.kind = "raise" \/ out.raised
                     THEN _heuristic_hashtag_suggestions(topic, sentiment_label)
                     ELSE out.val]

\* the try block of llm_analyze_verifiers: the dict, or None on any exception
RemoteAnalysis(max_tags, reply) ==
    LET data == json_loads(reply)
        \* data.get raises AttributeError unless data is a dict
        tags == IF data.raised \/ data.val.t # "obj" THEN Raised
                ELSE _sanitize_hashtags(DictGet(data.val, "hashtags", PyList(<<>>)), max_tags)
    IN IF reply.kind = "raise" \/ tags.raised THEN PyNone
       ELSE DictSet(data.val, "hashtags", StrList(tags.val))

\* llm_analyze_verifiers without the test of openai.api_key
llm_analyze_verifiers_NoKeyCheck(max_tags, api_key, reply) ==
    [sent |-> TRUE, ret |-> RemoteAnalysis(max_tags, reply)]

\* returns the dict or None, and whether a request was sent
llm_analyze_verifiers(max_tags, api_key, reply) ==
    IF ~api_key THEN [sent |-> FALSE, ret |-> PyNone]
    ELSE [sent |-> TRUE, ret |-> RemoteAnalysis(max_tags, reply)]

(***************************************************************************)
(* Report builder.                                                         *)
(***************************************************************************)
\* the result dict built from a truthy llm_report, before the vocabulary is added
LlmSections(llm_report) ==
    LET toxicity == DictGet(llm_report, "toxicity", EmptyDict)
    IN IF toxicity.t # "obj" THEN Raised   \* AttributeError: no attribute 'get'
       ELSE Returned(PyDict(
            [toxicity |-> PyDict([score |-> DictGet(toxicity, "score", PyFloat(0)),
                                  hits |-> PyList(<<>>),
                                  label |-> DictGet(toxicity, "label", PyStr("safe"))]),
             sentiment |-> DictGet(llm_report, "sentiment", EmptyDict),
             cta |-> DictGet(llm_report, "cta", EmptyDict),
             hook |-> DictGet(llm_report, "hook", EmptyDict),
             readability |-> DictGet(llm_report, "readability", EmptyDict),
             brand_safety |-> DictGet(llm_report, "brand_safety", EmptyDict),
             tone |-> DictGet(llm_report, "tone", EmptyDict),
             virality |-> DictGet(llm_report, "virality", EmptyDict),
             platform_guidelines |-> DictGet(llm_report, "platform_guidelines", EmptyDict),
             suggested_hashtags |-> DictGet(llm_report, "hashtags", PyList(<<>>))]))

\* the branch without the line that adds the vocabulary
LlmReport_NoVocabulary(llm_report, script) == LlmSections(llm_report)

\* the branch taking the vocabulary from the reply when the reply has one
LlmReport_RemoteVocabulary(llm_report, script) ==
    LET r == LlmSections(llm_report)
    IN IF r.raised THEN Raised
       ELSE Returned(DictSet(r.val, "vocabulary",
                             DictGet(llm_report, "vocabulary", vocabulary_diversity(script))))

\* the branch of analyze_script taken when llm_report is truthy
LlmReport(llm_report, script) ==
    LET r == LlmSections(llm_report)
    IN IF r.raised THEN Raised
       ELSE Returned(DictSet(r.val, "vocabulary", vocabulary_diversity(script)))

\* the heuristic fallback of analyze_script; returns the report and whether
\* llm_hashtag_suggestions sent a request
HeuristicReport(script, topic, platform, api_key, order, reply) ==
    LET sent == analyze_sentiment(script)
        hashtags == llm_hashtag_suggestions(topic, sent.v.label.v, 6, api_key, reply)
    IN [sent |-> hashtags.sent,
        ret |-> PyDict(
            [toxicity |-> analyze_toxicity(script),
             sentiment |-> sent,
             cta |-> detect_cta(script, order),
             hook |-> measure_hook_strength(script),
             readability |-> readability(script),
             brand_safety |-> brand_safety(script, {}),
             platform_guidelines |-> platform_guidelines(script, platform),
             vocabulary |-> vocabulary_diversity(script),
             tone |-> tone_classification(script),
             virality |-> virality_score(script, order),
             suggested_hashtags |-> StrList(hashtags.ret)])]

(***************************************************************************)
(* Inputs of the model.                                                    *)
(***************************************************************************)
ScriptChunks == {"Stop scrolling! ", "Try this  today.\n", "shit, I love BAD AI tips "}

RECURSIVE ChunkTexts(_)
\* the concatenations of exactly n chunks
ChunkTexts(n) ==
    IF n = 0 THEN {""} ELSE {a \o c : a \in ChunkTexts(n - 1), c \in ScriptChunks}

\* the script argument: absent, or a text of at most MaxChunks chunks
Scripts == {PyNone} \cup {PyStr(x) : x \in UNION {ChunkTexts(n) : n \in 0..MaxChunks}}

Topics == {PyNone, PyStr("AI tips")}

Platforms == {"youtube_shorts", "tiktok"}

\* trending_hashtags only enters the text of the requests
TrendingLists == {PyNone}

\* two iteration orders of the set CTA_PHRASES (the order depends on the
\* process's string hash seed and is fixed within a process)
CtaOrders ==
    { <<"subscribe", "follow", "like this", "comment", "share", "click the link",
        "link in bio", "check the description", "try this", "save this",
        "watch till the end">>,
      <<"watch till the end", "save this", "try this", "check the description",
        "link in bio", "click the link", "share", "comment", "like this", "follow",
        "subscribe">> }

\* a reply that follows the schema of llm_analyze_verifiers
SchemaReply ==
    [toxicity |-> PyDict([score |-> PyFloat(100), label |-> PyStr("safe")]),
     sentiment |-> PyDict([label |-> PyStr("positive"), score |-> PyFloat(600)]),
     cta |-> PyDict([present |-> PyBool(TRUE), phrases |-> StrList(<<"subscribe">>)]),
     hook |-> PyDict([score |-> PyFloat(800), rationale |-> PyStr("short")]),
     readability |-> PyDict([level |-> PyStr("easy"), score |-> PyFloat(900)]),
     brand_safety |-> PyDict([safe |-> PyBool(TRUE), issues |-> PyList(<<>>)]),
     tone |-> PyDict([label |-> PyStr("persuasive")]),
     virality |-> PyDict([score |-> PyInt(72), rationale |-> PyStr("hook")]),
     platform_guidelines |-> PyDict([compliant |-> PyBool(TRUE), issues |-> PyList(<<>>)]),
     hashtags |-> PyList(<<PyStr("#AI"), PyStr("ai tips!"), PyInt(7), PyStr("#ai")>>)]

Sections ==
    {"toxicity", "sentiment", "cta", "hook", "readability", "brand_safety", "tone",
     "virality", "platform_guidelines"}

\* JSON objects the remote model may answer: the schema reply, and replies
\* that depart from it in one place
ObjectReplies ==
    {SchemaReply, <<>>}
    \cup {Without(SchemaReply, k) : k \in Sections \cup {"hashtags"}}
    \cup {With(SchemaReply, k, x) : k \in Sections, x \in {EmptyDict, PyStr("high")}}
    \cup {With(SchemaReply, "toxicity", x) : x \in {PyList(<<>>), PyNone}}
    \cup {With(SchemaReply, "hashtags", x) : x \in {PyNone, PyInt(5), PyStr("#ai")}}
    \cup {With(SchemaReply, "toxicity", PyDict([score |-> PyFloat(1700), label |-> PyStr("risky")])),
          With(SchemaReply, "sentiment", PyDict([label |-> PyStr("negative"), score |-> PyFloat(-3000)])),
          With(SchemaReply, "hook", PyDict([score |-> PyFloat(2500), rationale |-> PyStr("")])),
          With(SchemaReply, "virality", PyDict([score |-> PyInt(250), rationale |-> PyStr("")])),
          With(SchemaReply, "virality", PyDict([score |-> PyFloat(800), rationale |-> PyStr("")])),
          With(SchemaReply, "vocabulary",
               PyDict([diversity |-> PyFloat(123), unique |-> PyInt(1), total |-> PyInt(8)]))}

\* what openai.ChatCompletion.create may do in llm_analyze_verifiers
AnalysisReplies ==
    {RemoteRaise, RemoteText("Sorry, I cannot help with that.")}
    \cup {RemoteJson(x) : x \in {PyList(<<>>), PyInt(5), PyStr("ok"), PyNone}}
    \cup {RemoteJson(PyDict(f)) : f \in ObjectReplies}

\* what openai.ChatCompletion.create may do in llm_hashtag_suggestions
HashtagReplies ==
    {RemoteRaise,
     RemoteText(" #AI, growth hacks\n#ai,, !!\n"),
     RemoteJson(PyList(<<PyStr("#Viral"), PyStr("viral"), PyStr("#a b"), PyInt(1)>>)),
     RemoteJson(PyInt(5)),
     RemoteJson(PyDict([hashtags |-> PyList(<<>>)]))}

(***************************************************************************)
(* State.                                                                  *)
(***************************************************************************)
VARIABLES
    api_key,            \* openai.api_key is set
    cta_order,          \* the iteration order of CTA_PHRASES in this process
    pc,                 \* position of the analyze_script call in progress
    path,               \* the positions the call has gone through
    args,               \* the arguments the caller passed
    script,             \* the local variable script
    llm_report,         \* the local variable llm_report
    requests,           \* requests sent to the remote model during the call
    result,             \* the report returned
    prev,               \* the report of the caller's previous call, when it repeats it
    task_id,            \* generate_video_with_runway: the local variable task_id
    status_data,        \* the local variable status_data, the last task record polled
    output_url,         \* the local variable output_url
    out_file,           \* the file at out_path: absent, empty or written
    polls,              \* the passes of the polling loop so far
    slept               \* the seconds spent in time.sleep so far

\* the variables of generate_video_with_runway
runway_vars == <<task_id, status_data, output_url, out_file, polls, slept>>

vars == <<api_key, cta_order, pc, path, args, script, llm_report, requests, result, prev,
          task_id, status_data, output_url, out_file, polls, slept>>

\* no call of generate_video_with_runway has started
RunwayIdle ==
    /\ task_id = [t |-> "none", v |-> 0]
    /\ status_data = [t |-> "none", v |-> 0]
    /\ output_url = [t |-> "none", v |-> 0]
    /\ out_file = "absent"
    /\ polls = 0
    /\ slept = 0

NoArgs == [script |-> PyNone, topic |-> PyNone, platform |-> "", trending_hashtags |-> PyNone,
           use_llm |-> FALSE]

Init ==
    /\ RunwayIdle
    /\ api_key \in BOOLEAN
    /\ cta_order \in CtaOrders
    /\ pc = "idle"
    /\ path = <<>>
    /\ args = NoArgs
    /\ script = PyNone
    /\ llm_report = PyNone
    /\ requests = 0
    /\ result = PyNone
    /\ prev = PyNone

(***************************************************************************)
(* analyze_script, one action per position.                                *)
(***************************************************************************)
\* a caller invokes analyze_script
Call ==
    /\ pc = "idle"
    /\ \E s \in Scripts, tp \in Topics, pf \in Platforms, tr \in TrendingLists, ul \in BOOLEAN :
           /\ args' = [script |-> s, topic |-> tp, platform |-> pf, trending_hashtags |-> tr,
                       use_llm |-> ul]
           /\ script' = s
    /\ pc' = "START"
    /\ path' = <<"START">>
    /\ UNCHANGED <<api_key, cta_order, llm_report, requests, result, prev>>
    /\ UNCHANGED runway_vars

\* script = _normalize(script); if use_llm
Start ==
    /\ pc = "START"
    /\ script' = PyStr(_normalize(script))
    /\ pc' = IF args.use_llm THEN "LLM_ATTEMPT" ELSE "HEURISTIC_PATH"
    /\ path' = Append(path, pc')
    /\ UNCHANGED <<api_key, cta_order, args, llm_report, requests, result, prev>>
    /\ UNCHANGED runway_vars

\* llm_report = llm_analyze_verifiers(...); if llm_report
LlmAttempt ==
    /\ pc = "LLM_ATTEMPT"
    /\ \E reply \in AnalysisReplies :
           LET r == llm_analyze_verifiers(6, api_key, reply)
           IN /\ llm_report' = r.ret
              /\ requests' = requests + (IF r.sent THEN 1 ELSE 0)
              /\ pc' = IF Truthy(r.ret) THEN "LLM_SUCCESS" ELSE "LLM_FAILURE"
    /\ path' = Append(path, pc')
    /\ UNCHANGED <<api_key, cta_order, args, script, result, prev>>
    /\ UNCHANGED runway_vars

\* the report is assembled from llm_report and returned
LlmSuccess ==
    /\ pc = "LLM_SUCCESS"
    /\ LET r == LlmReport(llm_report, script.v)
       IN /\ pc' = IF r.raised THEN "RAISED" ELSE "DONE"
          /\ result' = r.val
    /\ path' = Append(path, pc')
    /\ UNCHANGED <<api_key, cta_order, args, script, llm_report, requests, prev>>
    /\ UNCHANGED runway_vars

\* llm_report is None: control falls out of the if
LlmFailure ==
    /\ pc = "LLM_FAILURE"
    /\ pc' = "HEURISTIC_PATH"
    /\ path' = Append(path, pc')
    /\ UNCHANGED <<api_key, cta_order, args, script, llm_report, requests, result, prev>>
    /\ UNCHANGED runway_vars

\* the heuristic fallback: the analyzers, llm_hashtag_suggestions, the report
HeuristicPath ==
    /\ pc = "HEURISTIC_PATH"
    /\ \E reply \in HashtagReplies :
           LET r == HeuristicReport(script.v, args.topic, args.platform, api_key, cta_order, reply)
           IN /\ result' = r.ret
              /\ requests' = requests + (IF r.sent THEN 1 ELSE 0)
    /\ pc' = "DONE"
    /\ path' = Append(path, pc')
    /\ UNCHANGED <<api_key, cta_order, args, script, llm_report, prev>>
    /\ UNCHANGED runway_vars

\* the caller repeats the call with the same arguments and the other use_llm
Recall ==
    /\ pc = "DONE"
    /\ ~api_key
    /\ prev = PyNone
    /\ prev' = result
    /\ args' = [args EXCEPT !.use_llm = ~args.use_llm]
    /\ script' = args.script
    /\ llm_report' = PyNone
    /\ requests' = 0
    /\ result' = PyNone
    /\ pc' = "START"
    /\ path' = <<"START">>
    /\ UNCHANGED <<api_key, cta_order>>
    /\ UNCHANGED runway_vars

\* the caller takes the outcome; the next call starts afresh
Return ==
    /\ pc \in {"DONE", "RAISED"}
    /\ pc' = "idle"
    /\ path' = <<>>
    /\ args' = NoArgs
    /\ script' = PyNone
    /\ llm_report' = PyNone
    /\ requests' = 0
    /\ result' = PyNone
    /\ prev' = PyNone
    /\ UNCHANGED <<api_key, cta_order>>
    /\ UNCHANGED runway_vars

Next ==
    \/ Call
    \/ Start
    \/ LlmAttempt
    \/ LlmSuccess
    \/ LlmFailure
    \/ HeuristicPath
    \/ Recall
    \/ Return

Spec == Init /\ [][Next]_vars

(***************************************************************************)
(* Properties.                                                             *)
(***************************************************************************)
InPath(p) == \E i \in DOMAIN path : path[i] = p

\* the script the analyzers see: the caller's argument, normalized
NormalizedArg == _normalize(args.script)

\* the sections the local analyzers compute for the call in progress
LocalSections ==
    [toxicity |-> analyze_toxicity(NormalizedArg),
     sentiment |-> analyze_sentiment(NormalizedArg),
     cta |-> detect_cta(NormalizedArg, cta_order),
     hook |-> measure_hook_strength(NormalizedArg),
     readability |-> readability(NormalizedArg),
     brand_safety |-> brand_safety(NormalizedArg, {}),
     platform_guidelines |-> platform_guidelines(NormalizedArg, args.platform),
     vocabulary |-> vocabulary_diversity(NormalizedArg),
     tone |-> tone_classification(NormalizedArg),
     virality |-> virality_score(NormalizedArg, cta_order)]

ReportKeys ==
    {"toxicity", "sentiment", "cta", "hook", "readability", "brand_safety",
     "platform_guidelines", "vocabulary", "tone", "virality", "suggested_hashtags"}

\* the value of a number in thousandths
Thousandths(x) == IF x.t = "int" THEN 1000 * x.v ELSE x.v

\* the section's score, when it has a numeric one, lies in lo..hi (thousandths)
ScoreWithin(section, lo, hi) ==
    (section.t = "obj" /\ "score" \in DOMAIN section.v /\ section.v.score.t \in {"int", "float"})
        => (lo <= Thousandths(section.v.score) /\ Thousandths(section.v.score) <= hi)

\* C1: analyze_script with use_llm=true never raises, whatever the remote
\* collaborator does (exception, non-JSON text, JSON that is no object, JSON
\* object with sections missing or of the wrong type): a report is returned.
C1_NeverRaises == pc # "RAISED"

\* C2: when use_llm=true and the remote evaluation fails (no credentials,
\* exception, non-JSON reply, or a JSON reply that lacks a required section),
\* every analyzer section of the report is the one the local analyzer
\* computes on the normalized script.
C2_FailureFallsBackToHeuristics ==
    (/\ pc = "DONE"
     /\ args.use_llm
     /\ (llm_report.t # "obj" \/ \E k \in Sections : k \notin DOMAIN llm_report.v))
        => \A k \in DOMAIN LocalSections : result.v[k] = LocalSections[k]

\* C3: every report analyze_script returns is fully populated: none of the
\* sections sentiment, cta, hook, readability, brand_safety, tone, virality,
\* platform_guidelines is an empty mapping, on any path.
C3_NoEmptySection ==
    pc = "DONE" => \A k \in Sections \ {"toxicity"} : result.v[k] # EmptyDict

\* C4: during one analyze_script call at most one request is sent to the
\* remote model service; after a failed llm_analyze_verifiers attempt no
\* second request is issued.
C4_AtMostOneRequest == requests <= 1

\* C5: the report analyze_script returns has exactly the eleven top-level
\* keys toxicity, sentiment, cta, hook, readability, brand_safety,
\* platform_guidelines, vocabulary, tone, virality, suggested_hashtags, for
\* every script and every remote outcome.
C5_ElevenKeys == pc = "DONE" => (result.t = "obj" /\ DOMAIN result.v = ReportKeys)

\* a report built from a remote reply that omits a section
C5_Witness ==
    /\ pc = "DONE"
    /\ InPath("LLM_SUCCESS")
    /\ "sentiment" \notin DOMAIN llm_report.v
    /\ DOMAIN result.v = ReportKeys

\* C6: every analyze_script call follows one of the three sequences
\* START -> HEURISTIC_PATH -> DONE (remote not requested),
\* START -> LLM_ATTEMPT -> LLM_SUCCESS -> DONE,
\* START -> LLM_ATTEMPT -> LLM_FAILURE -> HEURISTIC_PATH -> DONE,
\* and ends in DONE; LLM_ATTEMPT is entered only when use_llm is true.
C6_ThreeSequences ==
    pc # "idle" =>
        \E full \in {<<"START", "HEURISTIC_PATH", "DONE">>,
                     <<"START", "LLM_ATTEMPT", "LLM_SUCCESS", "DONE">>,
                     <<"START", "LLM_ATTEMPT", "LLM_FAILURE", "HEURISTIC_PATH", "DONE">>} :
            /\ Len(path) <= Len(full)
            /\ path = SubSeq(full, 1, Len(path))
            /\ (Len(path) >= 2 => (args.use_llm <=> full[2] = "LLM_ATTEMPT"))

\* C7: in every report analyze_script returns the numeric scores lie in
\* their documented ranges: toxicity.score in [0,1], sentiment.score in
\* [-1,1], hook.score in [0,1], virality.score in [0,100]; an out-of-range
\* value of a remote reply is clamped before the report is returned.
C7_ScoresInRange ==
    pc = "DONE" =>
        /\ ScoreWithin(result.v.toxicity, 0, 1000)
        /\ ScoreWithin(result.v.sentiment, -1000, 1000)
        /\ ScoreWithin(result.v.hook, 0, 1000)
        /\ ScoreWithin(result.v.virality, 0, 100000)

\* C8: the report's vocabulary section is always computed locally: on both
\* paths it is vocabulary_diversity of the normalized script, whatever the
\* remote reply holds (a "vocabulary" field of the reply is ignored).
C8_VocabularyIsLocal ==
    pc = "DONE" => result.v.vocabulary = vocabulary_diversity(NormalizedArg)

\* a report built from a remote reply that carries its own vocabulary section
C8_Witness ==
    /\ pc = "DONE"
    /\ InPath("LLM_SUCCESS")
    /\ "vocabulary" \in DOMAIN llm_report.v
    /\ NormalizedArg # ""
    /\ result.v.vocabulary # llm_report.v.vocabulary

\* C9: when no API key is configured, analyze_script sends no remote
\* request, and for the same script, topic, platform and trending hashtags
\* it returns the same report with use_llm=true as with use_llm=false.
C9_NoKeySameReport ==
    ~api_key => /\ requests = 0
                /\ (pc = "DONE" /\ prev # PyNone) => result = prev

\* the same call made with use_llm=false and then with use_llm=true, no key
C9_Witness ==
    /\ ~api_key
    /\ pc = "DONE"
    /\ prev # PyNone
    /\ args.use_llm
    /\ InPath("LLM_FAILURE")
    /\ NormalizedArg # ""

\* C10: virality_score returns an integer score with 0 <= score <= 100 for
\* every script, including the empty string.
C10_ViralityRange ==
    script.t = "str" =>
        LET score == virality_score(script.v, cta_order).v.score
        IN score.t = "int" /\ 0 <= score.v /\ score.v <= 100

\* the heuristic report of the empty script carries the score of virality_score
C10_Witness ==
    /\ pc = "DONE"
    /\ InPath("HEURISTIC_PATH")
    /\ script = PyStr("")
    /\ result.v.virality = virality_score("", cta_order)
    /\ result.v.virality.v.score.v > 0

\* C18: analyze_script(None) does not raise and returns a report that
\* analyze_script("") returns for the same other arguments, key and remote
\* behaviour; in it toxicity has no hits and score 0, sentiment is neutral
\* with pos = neg = 0, and no call to action is present.
C18_AbsentScriptAsEmpty ==
    (args.script = PyNone /\ ~args.use_llm) =>
        /\ pc # "RAISED"
        /\ pc = "DONE" =>
              /\ result \in {HeuristicReport("", args.topic, args.platform, api_key,
                                             cta_order, reply).ret : reply \in HashtagReplies}
              /\ result.v.toxicity.v.hits = PyList(<<>>)
              /\ Thousandths(result.v.toxicity.v.score) = 0
              /\ result.v.sentiment.v.label = PyStr("neutral")
              /\ result.v.sentiment.v.pos = PyInt(0)
              /\ result.v.sentiment.v.neg = PyInt(0)
              /\ result.v.cta.v.present = PyBool(FALSE)

\* analyze_script(None) returned a report whose hashtags came from the remote reply
C18_Witness ==
    /\ pc = "DONE"
    /\ args.script = PyNone
    /\ ~args.use_llm
    /\ api_key
    /\ requests = 1
    /\ script = PyStr("")
    /\ result.v.sentiment.v.label = PyStr("neutral")
    /\ result.v.suggested_hashtags = StrList(<<"#Viral", "#ab">>)

(***************************************************************************)
(* Direct calls.  A second specification calls one analyzer or one hashtag *)
(* function directly: args holds the function's name and its arguments,    *)
(* result what it returns.                                                 *)
(***************************************************************************)
\* ws joined by single spaces
JoinWords(ws) == Join([i \in 1..Len(ws) |-> IF i = 1 THEN ws[i] ELSE " " \o ws[i]])

\* n times the word w
Repeat(w, n) == [i \in 1..n |-> w]

\* the demo script of the module's __main__ block
DemoScript ==
    "Stop scrolling! 3 things creators forget that cost views. "
    \o "Hook fast, add value, and end with a strong call to action. "
    \o "Try this today and tell me how it goes."

\* scripts passed to the analyzers that take any script
DirectScripts ==
    UNION {ChunkTexts(n) : n \in 0..MaxChunks}
    \cup {DemoScript, "shit", "I hate this. It is the worst scam", "Subscribe now! You will love it",
          "Great growth. Great success! Great great great"}

ViralityCalls == {[fn |-> "virality_score", script |-> x] : x \in DirectScripts}

\* the functions that read openai.api_key, and those that iterate CTA_PHRASES
KeyReaders == {"llm_hashtag_suggestions"}
CtaReaders == {"virality_score", "detect_cta"}

\* the state before a direct call with arguments a
DirectInit(a) ==
    /\ RunwayIdle
    /\ api_key \in (IF a.fn \in KeyReaders THEN BOOLEAN ELSE {FALSE})
    /\ cta_order \in (IF a.fn \in CtaReaders THEN CtaOrders ELSE {CHOOSE o \in CtaOrders : TRUE})
    /\ pc = "call"
    /\ path = <<>>
    /\ args = a
    /\ script = PyNone
    /\ llm_report = PyNone
    /\ requests = 0
    /\ result = PyNone
    /\ prev = PyNone

\* the step of a direct call that returns out
DirectReturn(name, out) ==
    /\ pc = "call"
    /\ args.fn = name
    /\ result' = out
    /\ pc' = "returned"
    /\ UNCHANGED <<api_key, cta_order, path, args, script, llm_report, requests, prev>>
    /\ UNCHANGED runway_vars

Returned_From(name) == pc = "returned" /\ args.fn = name

CallVirality == DirectReturn("virality_score", virality_score(args.script, cta_order))

\* C11: virality_score returns round(100 * clamp(base, 0, 1)) where base is
\* 0.25 * hook + 0.20 * (0.5 + 0.5 * sentiment) + 0.15 * cta + 0.20 * ease
\* + 0.15 * diversity + 0.05 * (1 - toxicity), cta being 1 when a call to
\* action is present and 0 otherwise.  Base200k is 200000 * base.
Base200k(s, order) ==
    LET hook == Thousandths(measure_hook_strength(s).v.score)
        sentiment == Thousandths(analyze_sentiment(s).v.score)
        cta == IF detect_cta(s, order).v.present = PyBool(TRUE) THEN 1 ELSE 0
        ease == Thousandths(readability(s).v.ease)
        diversity == Thousandths(vocabulary_diversity(s).v.diversity)
        toxicity == Thousandths(analyze_toxicity(s).v.score)
    IN 50 * hook + 20 * (1000 + sentiment) + 30000 * cta + 40 * ease
       + 30 * diversity + 10 * (1000 - toxicity)

C11_ViralityFormula ==
    Returned_From("virality_score") =>
        result = PyDict([score |->
            PyInt(RoundDiv(Max(0, Min(200000, Base200k(args.script, cta_order))), 2000))])

\* a script with a hook, a call to action and a positive word was scored
C11_Witness ==
    /\ Returned_From("virality_score")
    /\ detect_cta(args.script, cta_order).v.present = PyBool(TRUE)
    /\ Thousandths(measure_hook_strength(args.script).v.score) > 0
    /\ Thousandths(analyze_sentiment(args.script).v.score) > 0
    /\ Thousandths(readability(args.script).v.ease)
         # Thousandths(vocabulary_diversity(args.script).v.diversity)
    /\ result.v.score.v \in 1..99

(***************************************************************************)
(* analyze_toxicity on scripts of up to MaxCount words; a further call     *)
(* passes the script with one more word, prev keeping the earlier call.    *)
(***************************************************************************)
\* words whose token is in TOXIC_KEYWORDS or PROFANITY, and words whose token is not
ToxicWords == {"hate", "Shit,"}
CleanWords == {"hateful", "love"}

ToxicityCalls == {[fn |-> "analyze_toxicity", words |-> <<>>]}

CallToxicity == DirectReturn("analyze_toxicity", analyze_toxicity(JoinWords(args.words)))

\* the next call of analyze_toxicity, on the script with one more word
MoreToxicity ==
    /\ pc = "returned"
    /\ args.fn = "analyze_toxicity"
    /\ Len(args.words) < MaxCount
    /\ \E w \in ToxicWords \cup CleanWords : args' = [args EXCEPT !.words = Append(@, w)]
    /\ prev' = [args |-> args, result |-> result]
    /\ result' = PyNone
    /\ pc' = "call"
    /\ UNCHANGED <<api_key, cta_order, path, script, llm_report, requests>>
    /\ UNCHANGED runway_vars

\* the number of words of ws that are in S
Occurrences(ws, S) == Cardinality({i \in DOMAIN ws : ws[i] \in S})

\* the score never decreases when a word is added, is 0 without hits and
\* exactly 1.0 from 3 hits on
ToxicityMonotone ==
    Returned_From("analyze_toxicity") =>
        LET hits == Occurrences(args.words, ToxicWords)
            score == Thousandths(result.v.score)
        IN /\ prev # PyNone => Thousandths(prev.result.v.score) <= score
           /\ hits = 0 => score = 0
           /\ hits >= 3 => result.v.score = PyFloat(1000)

\* C12 as stated: the score is monotonic non-decreasing in the number of
\* matching tokens and is min(1, hits/3) itself, 0 for no hit and exactly
\* 1.0 from 3 hits on.
C12_ScoreIsHitsOverThree ==
    /\ ToxicityMonotone
    /\ Returned_From("analyze_toxicity") =>
          3 * Thousandths(result.v.score) = 1000 * Min(3, Occurrences(args.words, ToxicWords))

\* C12 amended: the score is monotonic non-decreasing in the number of
\* matching tokens and is min(1, hits/3) rounded to three decimals, 0 for no
\* hit and exactly 1.0 from 3 hits on.
C12_ScoreIsRoundedHitsOverThree ==
    /\ ToxicityMonotone
    /\ Returned_From("analyze_toxicity") =>
          LET hits == Occurrences(args.words, ToxicWords)
          IN /\ result.v.score = PyFloat(RoundDiv(1000 * Min(3, hits), 3))
             /\ Len(result.v.hits.v) = hits

\* a script with four matching words was scored after one with three
C12_Witness ==
    /\ Returned_From("analyze_toxicity")
    /\ Occurrences(args.words, ToxicWords) = 4
    /\ prev # PyNone
    /\ Occurrences(prev.args.words, ToxicWords) = 3
    /\ result.v.score = PyFloat(1000)

(***************************************************************************)
(* analyze_sentiment on a script of pos positive words, neg negative words *)
(* and possibly a word of neither lexicon.                                 *)
(***************************************************************************)
SentimentCalls ==
    {[fn |-> "analyze_sentiment", pos |-> p, neg |-> n, other |-> o] :
        p \in 0..MaxCount, n \in 0..MaxCount, o \in 0..1}

\* "Great," and "WORST!" tokenize to the lexicon words great and worst;
\* "greatest" is in neither lexicon
SentimentScript(a) ==
    JoinWords(Repeat("Great,", a.pos) \o Repeat("greatest", a.other) \o Repeat("WORST!", a.neg))

CallSentiment == DirectReturn("analyze_sentiment", analyze_sentiment(SentimentScript(args)))

\* the label of (pos - neg) / max(1, pos + neg) against 0.15 and -0.15, and the counts
SentimentLabelAndCounts ==
    Returned_From("analyze_sentiment") =>
        LET total == Max(1, args.pos + args.neg)
            diff == args.pos - args.neg
        IN /\ result.v.pos = PyInt(args.pos)
           /\ result.v.neg = PyInt(args.neg)
           /\ result.v.label.t = "str"
           /\ result.v.label.v \in {"positive", "negative", "neutral"}
           /\ result.v.label.v = "positive" <=> 100 * diff > 15 * total
           /\ result.v.label.v = "negative" <=> 100 * diff < -15 * total
           /\ diff = 0 => result.v.label.v = "neutral"

\* C13 as stated: for all counts pos and neg, analyze_sentiment returns
\* score = (pos - neg) / max(1, pos + neg) itself, and the label positive iff
\* that is above 0.15, negative iff below -0.15, neutral otherwise.
C13_ScoreIsQuotient ==
    /\ SentimentLabelAndCounts
    /\ Returned_From("analyze_sentiment") =>
          Thousandths(result.v.score) * Max(1, args.pos + args.neg) = 1000 * (args.pos - args.neg)

\* C13 amended: for all counts pos and neg, analyze_sentiment returns
\* score = (pos - neg) / max(1, pos + neg) rounded to three decimals, and the
\* label positive iff the unrounded quotient is above 0.15, negative iff it
\* is below -0.15, neutral otherwise (so pos = neg is neutral).
C13_ScoreIsRoundedQuotient ==
    /\ SentimentLabelAndCounts
    /\ Returned_From("analyze_sentiment") =>
          result.v.score = PyFloat(RoundDiv(1000 * (args.pos - args.neg), Max(1, args.pos + args.neg)))

\* four positive words against three negative ones: 1/7 is below 0.15
C13_Witness ==
    /\ Returned_From("analyze_sentiment")
    /\ args.pos = 4
    /\ args.neg = 3
    /\ result.v.label = PyStr("neutral")
    /\ result.v.score = PyFloat(143)

(***************************************************************************)
(* _sanitize_hashtags on candidate lists of up to MaxTags entries; a       *)
(* further call passes the list the first call returned.                   *)
(***************************************************************************)
TagPool ==
    {PyStr("#Test!"), PyStr("test"), PyStr("#test"), PyStr(" a b "), PyStr("##x!y!z"),
     PyStr("!!"), PyStr(" "), PyInt(7)}

\* the sequences over S of length n
SeqsOfLen(S, n) == [1..n -> S]

TagLists == UNION {SeqsOfLen(TagPool, n) : n \in 0..MaxTags}

TagLimits == {1, 2, 6}

SanitizeCalls ==
    {[fn |-> "_sanitize_hashtags", tags |-> PyList(l), max_tags |-> m] :
        l \in TagLists, m \in TagLimits}

CallSanitize ==
    DirectReturn("_sanitize_hashtags", StrList(_sanitize_hashtags(args.tags, args.max_tags).val))

\* _sanitize_hashtags called on the list it returned, with the same max_tags
AgainSanitize ==
    /\ pc = "returned"
    /\ args.fn = "_sanitize_hashtags"
    /\ prev = PyNone
    /\ args' = [args EXCEPT !.tags = result]
    /\ prev' = [args |-> args, result |-> result]
    /\ result' = PyNone
    /\ pc' = "call"
    /\ UNCHANGED <<api_key, cta_order, path, script, llm_report, requests>>
    /\ UNCHANGED runway_vars

\* C14: sanitizing the list that _sanitize_hashtags returned, with the same
\* max_tags, returns that list again.
C14_SanitizeIdempotent ==
    (Returned_From("_sanitize_hashtags") /\ prev # PyNone) => result = prev.result

\* a list that the first call changed and cut was sanitized again
C14_Witness ==
    /\ Returned_From("_sanitize_hashtags")
    /\ prev # PyNone
    /\ prev.args.tags # prev.result
    /\ prev.args.tags.v[1] = PyStr("##x!y!z")
    /\ Len(prev.args.tags.v) > Len(prev.result.v)
    /\ Len(result.v) = 2

\* the cleaned form of the i-th candidate alone: <<>> when it is dropped
CleanedAlone(tags, i) == _sanitize_hashtags(PyList(<<tags[i]>>), 1).val

\* the first candidate whose cleaned form equals tag ignoring case, 0 if none
FirstSource(tags, tag) ==
    LET from == {i \in DOMAIN tags :
                    CleanedAlone(tags, i) # <<>> /\ lower(CleanedAlone(tags, i)[1]) = lower(tag)}
    IN IF from = {} THEN 0 ELSE CHOOSE i \in from : \A j \in from : i <= j

\* C15: every entry of the returned list is '#' followed by at least one
\* character, all letters, digits or underscores; no two entries are equal
\* ignoring case; entries keep the order of their first occurrence in the
\* input with the first-seen spelling; ["#Test!", "test", "#test"] with
\* max_tags = 6 yields exactly ["#Test"].
C15_SanitizedWellFormed ==
    Returned_From("_sanitize_hashtags") =>
        LET out == [i \in DOMAIN result.v |-> result.v[i].v]
            tags == args.tags.v
        IN /\ \A i \in DOMAIN out :
                /\ Len(out[i]) >= 2
                /\ Char(out[i], 1) = "#"
                /\ \A k \in 2..Len(out[i]) :
                      Char(out[i], k) \in UpperSet \cup LowerSet \cup DigitSet \cup {"_"}
           /\ \A i, j \in DOMAIN out : i < j => lower(out[i]) # lower(out[j])
           /\ \A i \in DOMAIN out :
                /\ FirstSource(tags, out[i]) # 0
                /\ out[i] = CleanedAlone(tags, FirstSource(tags, out[i]))[1]
           /\ \A i, j \in DOMAIN out : i < j => FirstSource(tags, out[i]) < FirstSource(tags, out[j])
           /\ (tags = <<PyStr("#Test!"), PyStr("test"), PyStr("#test")>> /\ args.max_tags = 6)
                 => out = <<"#Test">>

\* the list of the claim's example was sanitized
C15_Witness ==
    /\ Returned_From("_sanitize_hashtags")
    /\ args.tags = PyList(<<PyStr("#Test!"), PyStr("test"), PyStr("#test")>>)
    /\ args.max_tags = 6
    /\ result = StrList(<<"#Test">>)

(***************************************************************************)
(* llm_hashtag_suggestions called with a script that is a str, as its      *)
(* signature says; the script only goes into the prompt.                   *)
(***************************************************************************)
SentimentLabels == {"positive", "negative", "neutral"}

HashtagLimits == {1, 3, 6}

\* HashtagReplies and a content with more than six candidates
DirectReplies ==
    HashtagReplies \cup {RemoteText("a,b\nc\nd,e\nf,g"), RemoteJson(PyStr("ab"))}

HashtagCalls ==
    {[fn |-> "llm_hashtag_suggestions", topic |-> t, sentiment_label |-> l,
      max_tags |-> m, reply |-> r] :
        t \in Topics, l \in SentimentLabels, m \in HashtagLimits, r \in DirectReplies}

CallHashtags ==
    /\ pc = "call"
    /\ args.fn = "llm_hashtag_suggestions"
    /\ LET out == llm_hashtag_suggestions(args.topic, args.sentiment_label, args.max_tags,
                                          api_key, args.reply)
       IN /\ result' = StrList(out.ret)
          /\ requests' = requests + (IF out.sent THEN 1 ELSE 0)
    /\ pc' = "returned"
    /\ UNCHANGED <<api_key, cta_order, path, args, script, llm_report, prev>>
    /\ UNCHANGED runway_vars

\* C16: for every max_tags >= 1, llm_hashtag_suggestions returns at most
\* max_tags hashtags, whether the remote call succeeds, no key is configured
\* or the remote call raises.
C16_AtMostMaxTags ==
    (Returned_From("llm_hashtag_suggestions") /\ args.max_tags >= 1)
        => Len(result.v) <= args.max_tags

\* on the path through the remote reply the cap of max_tags is kept
RemotePathCapped ==
    (Returned_From("llm_hashtag_suggestions") /\ requests = 1
        /\ args.reply.kind # "raise" /\ args.reply # RemoteJson(PyInt(5)))
        => Len(result.v) <= args.max_tags

\* the list the heuristic strategy gives for the topics and labels of the calls
HeuristicExpected(topic, label) ==
    <<"#Shorts", "#viral", "#fyp">>
    \o (IF topic = PyStr("AI tips") THEN <<"#AItips">> ELSE <<>>)
    \o (CASE label = "positive" -> <<"#growth", "#success">>
          [] label = "negative" -> <<"#lessons", "#truth">>
          [] OTHER -> <<"#learn", "#tips">>)

\* the non-empty pieces of the two contents that are not JSON, split on
\* newlines and commas
PiecesOf(text) ==
    CASE text = " #AI, growth hacks\n#ai,, !!\n" -> <<"#AI", "growth hacks", "#ai", "!!">>
      [] text = "a,b\nc\nd,e\nf,g" -> <<"a", "b", "c", "d", "e", "f", "g">>

\* C17: llm_hashtag_suggestions always returns a list; when the remote call
\* raises or its response cannot be handled the list is the heuristic one;
\* when the response is not JSON the candidates are its non-empty pieces
\* between newlines and commas; the returned list is always a sanitized one.
C17_HashtagFallbacks ==
    Returned_From("llm_hashtag_suggestions") =>
        LET heuristic == StrList(HeuristicExpected(args.topic, args.sentiment_label))
        IN /\ result.t = "list"
           /\ ~api_key => (result = heuristic /\ requests = 0)
           /\ (api_key /\ args.reply.kind = "raise") => result = heuristic
           /\ (api_key /\ args.reply = RemoteJson(PyInt(5))) => result = heuristic
           /\ (api_key /\ args.reply.kind = "text") =>
                 result = StrList(_sanitize_hashtags(StrList(PiecesOf(args.reply.text)),
                                                     args.max_tags).val)
           /\ result = StrList(_sanitize_hashtags(result, Len(result.v)).val)

\* with a key, a content that is not JSON gave six tags from its pieces
C17_Witness ==
    /\ Returned_From("llm_hashtag_suggestions")
    /\ api_key
    /\ requests = 1
    /\ args.reply = RemoteText("a,b\nc\nd,e\nf,g")
    /\ result = StrList(<<"#a", "#b", "#c", "#d", "#e", "#f">>)

(***************************************************************************)
(* vocabulary_diversity on scripts of up to MaxCount words.                *)
(***************************************************************************)
\* "Tips" and "tips," give the alphabetic token tips, "growth" gives growth;
\* the token of "AI2" holds a digit, so it is not alphabetic
VocabularyWords == {"Tips", "tips,", "growth", "AI2"}

FoldedToken(w) ==
    CASE w = "Tips" -> "tips"
      [] w = "tips," -> "tips"
      [] w = "growth" -> "growth"

VocabularyCalls ==
    {[fn |-> "vocabulary_diversity", words |-> ws] :
        ws \in UNION {SeqsOfLen(VocabularyWords, n) : n \in 0..MaxCount}}

CallVocabulary ==
    DirectReturn("vocabulary_diversity", vocabulary_diversity(JoinWords(args.words)))

\* C19: vocabulary_diversity reports unique = the number of distinct
\* case-folded alphabetic tokens, total = the number of such tokens and
\* diversity = unique / max(1, total) (compared to three decimals); for the
\* empty script unique = 0, total = 0 and diversity = 0.0.
C19_VocabularyCounts ==
    Returned_From("vocabulary_diversity") =>
        LET alpha == SelectSeq(args.words, LAMBDA w : w # "AI2")
            unique == Cardinality({FoldedToken(alpha[i]) : i \in DOMAIN alpha})
            total == Len(alpha)
        IN /\ result.v.unique = PyInt(unique)
           /\ result.v.total = PyInt(total)
           /\ Thousandths(result.v.diversity) = RoundDiv(1000 * unique, Max(1, total))
           /\ args.words = <<>> =>
                 (result.v.unique = PyInt(0) /\ result.v.total = PyInt(0)
                    /\ Thousandths(result.v.diversity) = 0)

\* whenever the script has an alphabetic token the three fields are as C19 says
VocabularyCountsNonEmpty ==
    Returned_From("vocabulary_diversity") =>
        LET alpha == SelectSeq(args.words, LAMBDA w : w # "AI2")
            unique == Cardinality({FoldedToken(alpha[i]) : i \in DOMAIN alpha})
        IN alpha # <<>> =>
              /\ result.v.unique = PyInt(unique)
              /\ result.v.total = PyInt(Len(alpha))
              /\ Thousandths(result.v.diversity) = RoundDiv(1000 * unique, Len(alpha))

(***************************************************************************)
(* brand_safety and platform_guidelines on scripts of up to MaxCount words *)
(* of which some are profanity, alone or followed by twenty plain words    *)
(* that bring the script within the platforms' length.                     *)
(***************************************************************************)
\* "Shit," and "dick" give the PROFANITY tokens shit and dick; "scunthorpe"
\* is one token that only contains a PROFANITY word; "great" is plain
ProfaneWords == {"Shit,", "dick"}
SafetyWords == ProfaneWords \cup {"scunthorpe", "great"}

ProfaneToken(w) == IF w = "Shit," THEN "shit" ELSE w

PlainTail == Repeat("ok", 20)

SafetyScripts == UNION {SeqsOfLen(SafetyWords, n) : n \in 0..MaxCount}

\* banned is the caller's list; None and [] give the same set
BrandSafetyCalls == {[fn |-> "brand_safety", words |-> ws, banned |-> <<>>] : ws \in SafetyScripts}

GuidelinesCalls ==
    {[fn |-> "platform_guidelines", words |-> ws \o tl, platform |-> pf] :
        ws \in SafetyScripts, tl \in {<<>>, PlainTail}, pf \in Platforms}

CallBrandSafety ==
    DirectReturn("brand_safety",
                 brand_safety(JoinWords(args.words), {args.banned[i] : i \in DOMAIN args.banned}))

CallGuidelines ==
    DirectReturn("platform_guidelines", platform_guidelines(JoinWords(args.words), args.platform))

\* the PROFANITY tokens of the words ws
ProfanityIn(ws) == {ProfaneToken(ws[i]) : i \in {j \in DOMAIN ws : ws[j] \in ProfaneWords}}

\* the strings of a Python list of str
Members(list) == {list.v[i].v : i \in DOMAIN list.v}

\* C20: when a profanity word occurs in the script as a whole token,
\* brand_safety reports safe = false with that word in hits, the hits of
\* analyze_toxicity include that word, and platform_guidelines reports
\* no_profanity = false and compliant = false.
C20_ProfanityFlagged ==
    /\ Returned_From("brand_safety") =>
          \A w \in ProfanityIn(args.words) :
              result.v.safe = PyBool(FALSE) /\ w \in Members(result.v.hits)
    /\ Returned_From("analyze_toxicity") =>
          \A w \in ProfanityIn(args.words) : w \in Members(result.v.hits)
    /\ Returned_From("platform_guidelines") =>
          (ProfanityIn(args.words) # {} =>
              /\ result.v.no_profanity = PyBool(FALSE)
              /\ result.v.compliant = PyBool(FALSE))

\* a script within the length and the capitals limit was found not compliant
\* for its one profanity token
C20_Witness ==
    /\ Returned_From("platform_guidelines")
    /\ args.words = <<"Shit,">> \o PlainTail
    /\ result.v.within_length = PyBool(TRUE)
    /\ result.v.minimal_caps = PyBool(TRUE)
    /\ result.v.profanity_hits = StrList(<<"shit">>)
    /\ result.v.compliant = PyBool(FALSE)

(***************************************************************************)
(* _heuristic_hashtag_suggestions called with a topic and a label.         *)
(***************************************************************************)
HeuristicTopics ==
    {PyNone, PyStr(""), PyStr(" "), PyStr("AI tips"), PyStr("Growth"), PyStr("tips"),
     PyStr("FYP"), PyStr("!!"), PyStr("#a-b")}

HeuristicLabels == SentimentLabels \cup {"mixed"}

HeuristicCalls ==
    {[fn |-> "_heuristic_hashtag_suggestions", topic |-> t, sentiment_label |-> l] :
        t \in HeuristicTopics, l \in HeuristicLabels}

CallHeuristic ==
    DirectReturn("_heuristic_hashtag_suggestions",
                 StrList(_heuristic_hashtag_suggestions(args.topic, args.sentiment_label)))

\* the topic-derived tag of the topics of HeuristicTopics: <<>> when no topic
\* is given, when it sanitizes to nothing or when it repeats #fyp
TopicTag(topic) ==
    CASE topic = PyStr("AI tips") -> <<"#AItips">>
      [] topic = PyStr("Growth") -> <<"#Growth">>
      [] topic = PyStr("tips") -> <<"#tips">>
      [] topic = PyStr("#a-b") -> <<"#ab">>
      [] OTHER -> <<>>

\* the two tags of a sentiment label
LabelTags(label) ==
    CASE label = "positive" -> <<"#growth", "#success">>
      [] label = "negative" -> <<"#lessons", "#truth">>
      [] OTHER -> <<"#learn", "#tips">>

\* the seeds first, then the topic-derived tag, then the label's tags
HeuristicOrder ==
    Returned_From("_heuristic_hashtag_suggestions") =>
        LET out == [i \in DOMAIN result.v |-> result.v[i].v]
            head == <<"#Shorts", "#viral", "#fyp">> \o TopicTag(args.topic)
            tags == LabelTags(args.sentiment_label)
        IN /\ Len(out) >= Len(head)
           /\ SubSeq(out, 1, Len(head)) = head
           /\ SubSeq(out, Len(head) + 1, Len(out))
                 = SelectSeq(tags, LAMBDA t : \A i \in DOMAIN head : lower(head[i]) # lower(t))

\* C21 as stated: the seeds, the topic-derived tag and the label's two tags
\* come in this order, and for every topic and label both tags of the label
\* are in the result.
C21_BothLabelTagsPresent ==
    /\ HeuristicOrder
    /\ Returned_From("_heuristic_hashtag_suggestions") =>
          \A t \in Members(StrList(LabelTags(args.sentiment_label))) : t \in Members(result)

\* C21 amended: the seeds, the topic-derived tag and the label's two tags
\* come in this order, and for every topic and label both tags of the label
\* are in the result up to case: a tag of the label that repeats the
\* topic-derived tag ignoring case is left out, the cap truncates none.
C21_BothLabelTagsPresentUpToCase ==
    /\ HeuristicOrder
    /\ Returned_From("_heuristic_hashtag_suggestions") =>
          /\ \A t \in Members(StrList(LabelTags(args.sentiment_label))) :
                \E u \in Members(result) : lower(u) = lower(t)
          /\ Len(result.v) <= 6

\* a topic gave a fourth tag and the two tags of the label followed it
C21_Witness ==
    /\ Returned_From("_heuristic_hashtag_suggestions")
    /\ args.topic = PyStr("AI tips")
    /\ args.sentiment_label = "negative"
    /\ result = StrList(<<"#Shorts", "#viral", "#fyp", "#AItips", "#lessons", "#truth">>)

(***************************************************************************)
(* TrendResultFormatter.format_youtube_videos.  A video is a dict; int()   *)
(* of a count raises ValueError unless it is an int or a decimal numeral.  *)
(***************************************************************************)
\* description[:2000]
DescriptionLimit == 2000

RECURSIVE DecimalValue(_)
\* the number a string of digits denotes
DecimalValue(s) ==
    IF s = "" THEN 0
    ELSE 10 * DecimalValue(SubSeq(s, 1, Len(s) - 1))
         + (CHOOSE d \in 0..9 : Char(DIGITS, d + 1) = Char(s, Len(s)))

\* int(x) for an int or a str
int_of(x) ==
    IF x.t = "int" THEN Returned(x.v)
    ELSE IF x.t = "str" /\ strip(x.v) # "" /\ \A i \in 1..Len(strip(x.v)) : Char(strip(x.v), i) \in DigitSet
    THEN Returned(DecimalValue(strip(x.v)))
    ELSE Raised

\* int(video.get(key, 0)) if video.get(key) else 0
count_of(video, key) ==
    IF Truthy(DictGet(video, key, PyNone)) THEN int_of(DictGet(video, key, PyInt(0)))
    ELSE Returned(0)

\* the description, cut to 2000 characters and "..." when it is longer
description_of(video) ==
    LET d == DictGet(video, "description", PyStr(""))
    IN IF Truthy(DictGet(video, "description", PyNone)) /\ Len(d.v) > DescriptionLimit
       THEN PyStr(SubSeq(d.v, 1, DescriptionLimit) \o "...")
       ELSE d

\* the captions entry of a formatted video
captions_of(video) ==
    IF "captions" \in DOMAIN video.v /\ Truthy(video.v.captions)
    THEN LET captions == video.v.captions
         IN PyDict([available |-> PyBool(TRUE),
                    language |-> DictGet(captions, "language", PyNone),
                    is_auto_generated |-> DictGet(captions, "is_auto", PyBool(FALSE)),
                    format |-> DictGet(captions, "format", PyNone),
                    method |-> DictGet(captions, "method", PyNone),
                    content_length |-> PyInt(Len(DictGet(captions, "content", PyStr("")).v))])
    ELSE PyDict([available |-> PyBool(FALSE)])

\* one pass of the loop body: the formatted video, or the ValueError of int()
format_video(video) ==
    LET views == count_of(video, "viewCount")
        likes == count_of(video, "likeCount")
        comments == count_of(video, "commentCount")
    IN IF views.raised \/ likes.raised \/ comments.raised THEN Raised
       ELSE Returned(PyDict([
                video_id |-> DictGet(video, "id", PyNone),
                title |-> DictGet(video, "title", PyNone),
                channel |-> DictGet(video, "channelTitle", PyNone),
                published_date |-> DictGet(video, "publishedAt", PyNone),
                statistics |-> PyDict([views |-> PyInt(views.val), likes |-> PyInt(likes.val),
                                       comments |-> PyInt(comments.val)]),
                category_id |-> DictGet(video, "categoryId", PyNone),
                tags |-> DictGet(video, "tags", PyList(<<>>)),
                description |-> description_of(video),
                captions |-> captions_of(video)]))

\* now is what datetime.now().isoformat() gives
format_youtube_videos(videos, region_code, include_metadata, now) ==
    LET formatted == [i \in DOMAIN videos |-> format_video(videos[i])]
        formatted_videos == PyList([i \in DOMAIN videos |-> formatted[i].val])
        base == [videos |-> formatted_videos, total_count |-> PyInt(Len(videos))]
    IN IF \E i \in DOMAIN videos : formatted[i].raised THEN Raised
       ELSE IF include_metadata
       THEN Returned(PyDict(With(base, "metadata",
                PyDict([source |-> PyStr("YouTube Trending API"),
                        region_code |-> PyStr(region_code),
                        retrieved_at |-> PyStr(now),
                        data_type |-> PyStr("trending_videos")]))))
       ELSE Returned(PyDict(base))

\* the record of test_format_youtube_videos_missing_data
IncompleteVideo == PyDict([id |-> PyStr("test_id"), title |-> PyStr("Test Title")])

LongDescription == Join(Repeat("A", DescriptionLimit + 1))

VideoPool ==
    {IncompleteVideo,
     PyDict([id |-> PyStr("v1"), title |-> PyStr("T"), channelTitle |-> PyStr("Chan"),
             publishedAt |-> PyStr("2024-01-01T00:00:00Z"), viewCount |-> PyStr("120"),
             likeCount |-> PyInt(3), commentCount |-> PyStr("0"), categoryId |-> PyStr("22"),
             tags |-> StrList(<<"a", "b">>), description |-> PyStr("short"),
             captions |-> PyDict([language |-> PyStr("en"), is_auto |-> PyBool(TRUE),
                                  content |-> PyStr("hello")])]),
     PyDict([id |-> PyStr("v2"), title |-> PyStr("T"), viewCount |-> PyStr(""),
             description |-> PyStr(LongDescription), captions |-> EmptyDict]),
     PyDict([id |-> PyStr("v3"), viewCount |-> PyStr("many")])}

Clock == {"2026-01-01T00:00:00", "2026-01-01T00:00:01"}

FormatCalls ==
    {[fn |-> "format_youtube_videos", videos |-> vs, region_code |-> rc, include_metadata |-> im] :
        vs \in UNION {SeqsOfLen(VideoPool, n) : n \in 0..MaxVideos},
        rc \in {"US", "DE"}, im \in BOOLEAN}

CallFormatVideos ==
    /\ pc = "call"
    /\ args.fn = "format_youtube_videos"
    /\ \E now \in Clock :
          LET out == format_youtube_videos(args.videos, args.region_code,
                                           args.include_metadata, now)
          IN /\ result' = out.val
             /\ pc' = IF out.raised THEN "raised" ELSE "returned"
    /\ UNCHANGED <<api_key, cta_order, path, args, script, llm_report, requests, prev>>
    /\ UNCHANGED runway_vars

\* C22: format_youtube_videos does not raise on a video record with only id
\* and title; its formatted video has channel "", statistics 0, 0, 0,
\* tags [] and captions.available false.
C22_MissingDataTolerated ==
    (args.fn = "format_youtube_videos" /\ pc \in {"returned", "raised"}) =>
        \A i \in DOMAIN args.videos :
            args.videos[i] = IncompleteVideo =>
                /\ (\A j \in DOMAIN args.videos : args.videos[j] = IncompleteVideo) => pc = "returned"
                /\ pc = "returned" =>
                      LET video == result.v.videos.v[i].v
                      IN /\ video.channel = PyStr("")
                         /\ video.statistics.v.views = PyInt(0)
                         /\ video.statistics.v.likes = PyInt(0)
                         /\ video.statistics.v.comments = PyInt(0)
                         /\ video.tags = PyList(<<>>)
                         /\ video.captions.v.available = PyBool(FALSE)

\* all of C22 but the channel holds
MissingDataButChannel ==
    (args.fn = "format_youtube_videos" /\ pc \in {"returned", "raised"}) =>
        \A i \in DOMAIN args.videos :
            args.videos[i] = IncompleteVideo =>
                /\ (\A j \in DOMAIN args.videos : args.videos[j] = IncompleteVideo) => pc = "returned"
                /\ pc = "returned" =>
                      LET video == result.v.videos.v[i].v
                      IN /\ video.channel = PyNone
                         /\ video.statistics.v.views = PyInt(0)
                         /\ video.statistics.v.likes = PyInt(0)
                         /\ video.statistics.v.comments = PyInt(0)
                         /\ video.tags = PyList(<<>>)
                         /\ video.captions.v.available = PyBool(FALSE)

(***************************************************************************)
(* measure_hook_strength on a first sentence of w words, with a power      *)
(* phrase in it, in a later sentence or nowhere.                           *)
(***************************************************************************)
\* w words, the first of them "Stop" when the power phrase is in the first
\* sentence; then possibly a second sentence with two power phrases
HookScript(w, hook) ==
    LET first == IF w = 0 THEN <<>>
                 ELSE <<IF hook = "first" THEN "Stop" ELSE "Go">> \o Repeat("on", w - 1)
    IN JoinWords(first)
       \o (IF w = 0 THEN "" ELSE "! ")
       \o (IF hook = "later" THEN "WARNING: the truth." ELSE "")

HookCalls ==
    {[fn |-> "measure_hook_strength", script |-> HookScript(w, h), w |-> w, hook |-> h] :
        w \in 1..MaxHookWords, h \in {"none", "first", "later"}}
    \cup {[fn |-> "measure_hook_strength", script |-> "", w |-> 0, hook |-> "none"],
          [fn |-> "measure_hook_strength", script |-> DemoScript, w |-> 2, hook |-> "first"]}

CallHook == DirectReturn("measure_hook_strength", measure_hook_strength(args.script))

\* C23: with w the word count of the first sentence and p = 1 iff a power
\* phrase is in the first sentence, the score is 0.6 * length_score + 0.4 * p
\* where length_score is 1.0 for 4 <= w <= 16, else 0.5 for w <= 24, else
\* 0.2; power phrases of later sentences change nothing; the empty script
\* scores 0.3 and the demo script has power_hits >= 1.
C23_HookFromFirstSentence ==
    Returned_From("measure_hook_strength") =>
        LET w == args.w
            p == IF args.hook = "first" THEN 1 ELSE 0
            tenths == IF 4 <= w /\ w <= 16 THEN 10 ELSE IF w <= 24 THEN 5 ELSE 2
        IN /\ Thousandths(result.v.score) = 60 * tenths + 400 * p
           /\ (result.v.power_hits.v >= 1) <=> (p = 1)
           /\ args.script = "" => Thousandths(result.v.score) = 300
           /\ args.script = DemoScript =>
                 (result.v.first_sentence = PyStr("stop scrolling") /\ result.v.power_hits.v >= 1)

\* a sixteen-word first sentence without power phrase, two phrases after it
C23_Witness ==
    /\ Returned_From("measure_hook_strength")
    /\ args.w = 16
    /\ args.hook = "later"
    /\ Contains(lower(args.script), "the truth")
    /\ result.v.power_hits = PyInt(0)
    /\ result.v.score = PyFloat(600)

(***************************************************************************)
(* platform_guidelines at the ends of the platforms' length ranges, with   *)
(* up to two all-caps words and possibly a profanity word.                 *)
(***************************************************************************)
TokenCounts == {0, 14, 15, 19, 20, 21, 40, 41, 55, 56, 70, 71}

CompliancePlatforms == Platforms \cup {"YouTube_Shorts"}

\* n one-token words: caps times "NOW", "Shit," when profane, the rest "ok"
ComplianceWords(n, caps, profane) ==
    Repeat("NOW", caps) \o Repeat("Shit,", IF profane THEN 1 ELSE 0)
    \o Repeat("ok", n - caps - (IF profane THEN 1 ELSE 0))

ComplianceCalls ==
    {[fn |-> "platform_guidelines", words |-> ComplianceWords(n, c, p), platform |-> pf] :
        n \in TokenCounts \ {0}, c \in 0..2, p \in BOOLEAN, pf \in CompliancePlatforms}
    \cup {[fn |-> "platform_guidelines", words |-> <<>>, platform |-> pf] :
            pf \in CompliancePlatforms}

\* C24: compliant is true iff the token count is in 20..55 for the platform
\* "youtube_shorts" and in 15..70 for any other platform, fewer than 0.05 of
\* the tokens are all-caps words, and no token is in the profanity lexicon.
C24_CompliantIffAllThree ==
    Returned_From("platform_guidelines") =>
        LET n == Len(args.words)
            caps == Occurrences(args.words, {"NOW"})
            lo == IF args.platform = "youtube_shorts" THEN 20 ELSE 15
            hi == IF args.platform = "youtube_shorts" THEN 55 ELSE 70
            length_ok == lo <= n /\ n <= hi
            caps_ok == 100 * caps < 5 * Max(1, n)
            clean == ProfanityIn(args.words) = {}
        IN /\ result.v.length_tokens = PyInt(n)
           /\ result.v.within_length = PyBool(length_ok)
           /\ result.v.minimal_caps = PyBool(caps_ok)
           /\ result.v.no_profanity = PyBool(clean)
           /\ result.v.compliant = PyBool(length_ok /\ caps_ok /\ clean)

\* 55 tokens, two of them all-caps words, are compliant for youtube_shorts
C24_Witness ==
    /\ Returned_From("platform_guidelines")
    /\ args.platform = "youtube_shorts"
    /\ Len(args.words) = 55
    /\ Occurrences(args.words, {"NOW"}) = 2
    /\ result.v.length_tokens = PyInt(55)
    /\ result.v.compliant = PyBool(TRUE)

(***************************************************************************)
(* tone_classification on scripts made of words that hold keywords of the  *)
(* four labels.                                                            *)
(***************************************************************************)
ToneWords == {"TODAY", "know", "guide", "Wow", "once", "learned", "plain"}

\* the labels of which the word holds a keyword: "know" holds now,
\* "learned" holds learn and learned
LabelsOf(w) ==
    CASE w \in {"TODAY", "know"} -> {"persuasive"}
      [] w = "guide" -> {"informative"}
      [] w = "Wow" -> {"entertaining"}
      [] w = "once" -> {"story"}
      [] w = "learned" -> {"informative", "story"}
      [] OTHER -> {}

ToneCalls == {[fn |-> "tone_classification", words |-> Sorted(ws)] : ws \in SUBSET ToneWords}

CallTone == DirectReturn("tone_classification", tone_classification(JoinWords(args.words)))

\* C25: candidates are the active labels in the order persuasive,
\* informative, entertaining, story; label is the first candidate, or
\* "neutral" iff there is none; when persuasive is active it is the label.
C25_FirstActiveLabel ==
    Returned_From("tone_classification") =>
        LET on == UNION {LabelsOf(args.words[i]) : i \in DOMAIN args.words}
            expected == SelectSeq(<<"persuasive", "informative", "entertaining", "story">>,
                                  LAMBDA l : l \in on)
        IN /\ result.v.candidates = StrList(expected)
           /\ result.v.label = PyStr(IF expected = <<>> THEN "neutral" ELSE expected[1])
           /\ (result.v.label = PyStr("neutral")) <=> (result.v.candidates = PyList(<<>>))
           /\ "persuasive" \in on => result.v.label = PyStr("persuasive")

\* all four labels were active and persuasive was returned
C25_Witness ==
    /\ Returned_From("tone_classification")
    /\ result.v.candidates = StrList(<<"persuasive", "informative", "entertaining", "story">>)
    /\ result.v.label = PyStr("persuasive")

(***************************************************************************)
(* brand_safety with a banned list of the caller.                          *)
(***************************************************************************)
BannedTerms == {"casino", "Casino", "bet", "poker"}

BannedWords == {"Casino", "night", "Shit,", "scunthorpe", "bet365"}

BannedCalls ==
    {[fn |-> "brand_safety", words |-> ws, banned |-> bl] :
        ws \in UNION {SeqsOfLen(BannedWords, n) : n \in 0..MaxBanned},
        bl \in UNION {SeqsOfLen(BannedTerms, n) : n \in 0..MaxBanned}}

\* the words of BannedWords and SafetyWords whose lower-cased text holds the term
HoldersOf(term) ==
    CASE term = "casino" -> {"Casino"}
      [] term = "bet" -> {"bet365"}
      [] term = "shit" -> {"Shit,"}
      [] term = "cunt" -> {"scunthorpe"}
      [] term = "dick" -> {"dick"}
      [] OTHER -> {}

\* C26: hits is the sorted list without duplicates of exactly the terms of
\* the profanity lexicon and the banned list that are substrings of the
\* lower-cased script, and safe is true iff hits is empty, for every banned
\* list, also one with upper-case terms.
C26_HitsAreSubstringTerms ==
    Returned_From("brand_safety") =>
        LET terms == PROFANITY \cup {args.banned[i] : i \in DOMAIN args.banned}
            found == {t \in terms : \E i \in DOMAIN args.words : args.words[i] \in HoldersOf(t)}
            expected == SelectSeq(<<"bet", "casino", "cunt", "dick", "shit">>, LAMBDA t : t \in found)
        IN /\ result.v.hits = StrList(expected)
           /\ result.v.safe = PyBool(expected = <<>>)

\* with "Casino" and "bet" banned, a script with Casino and bet365 hits bet only
C26_Witness ==
    /\ Returned_From("brand_safety")
    /\ args.banned = <<"Casino", "bet">>
    /\ args.words = <<"Casino", "bet365">>
    /\ result.v.hits = StrList(<<"bet">>)
    /\ result.v.safe = PyBool(FALSE)

(***************************************************************************)
(* detect_cta on the demo script and on scripts made of pieces that hold   *)
(* or nearly hold a phrase of CTA_PHRASES.                                 *)
(***************************************************************************)
CtaPieces == {"SUBSCRIBE!", "unfollowed", "Try  this", "Link in Bio", "plain"}

\* the phrase a piece holds: "Try  this" has two spaces and holds none
PhrasesOf(piece) ==
    CASE piece = "SUBSCRIBE!" -> {"subscribe"}
      [] piece = "unfollowed" -> {"follow"}
      [] piece = "Link in Bio" -> {"link in bio"}
      [] OTHER -> {}

CtaCalls ==
    {[fn |-> "detect_cta", words |-> Sorted(ws), demo |-> FALSE] : ws \in SUBSET CtaPieces}
    \cup {[fn |-> "detect_cta", words |-> <<>>, demo |-> TRUE]}

CallCta ==
    DirectReturn("detect_cta",
                 detect_cta(IF args.demo THEN DemoScript ELSE JoinWords(args.words), cta_order))

\* C27: present is true iff a phrase of the lexicon is a substring of the
\* lower-cased script; phrases holds exactly the matching phrases; present
\* iff phrases is not empty; the demo script is present through "try this"
\* and the empty script is not present.
C27_CtaBySubstring ==
    Returned_From("detect_cta") =>
        LET matching == IF args.demo THEN {"try this"}
                        ELSE UNION {PhrasesOf(args.words[i]) : i \in DOMAIN args.words}
        IN /\ Members(result.v.phrases) = matching
           /\ Len(result.v.phrases.v) = Cardinality(matching)
           /\ result.v.present = PyBool(matching # {})
           /\ (result.v.present = PyBool(TRUE)) <=> (result.v.phrases.v # <<>>)
           /\ (~args.demo /\ args.words = <<>>) => result.v.present = PyBool(FALSE)

\* the demo script was found to hold the one phrase "try this"
C27_Witness ==
    /\ Returned_From("detect_cta")
    /\ args.demo
    /\ result.v.present = PyBool(TRUE)
    /\ result.v.phrases = StrList(<<"try this">>)

(***************************************************************************)
(* readability on scripts of w words in s sentences with c letters.        *)
(***************************************************************************)
\* w - 1 words "a" and a last word of the other c - w + 1 letters; each of
\* the first s - 1 words ends a sentence
ReadabilityScript(w, s, c) ==
    IF w = 0 THEN ""
    ELSE JoinWords([i \in 1..w |->
            IF i = w THEN Join(Repeat("a", c - w + 1)) \o "."
            ELSE IF i < s THEN "a." ELSE "a"])

ReadabilityCalls ==
    {a \in [fn : {"readability"}, w : 0..MaxReadWords, s : 0..3, c : 0..MaxReadChars] :
        \/ a.w = 0 /\ a.s = 0 /\ a.c = 0
        \/ 1 <= a.s /\ a.s <= a.w /\ a.w <= a.c}

CallReadability ==
    DirectReturn("readability", readability(ReadabilityScript(args.w, args.s, args.c)))

\* 1000 * (1.2 - (w / s) / 25 - (c / w) / 8) * s * w clamped to 0 .. 1000 * s * w,
\* counts floored at 1
EaseTimes(w, s, c) ==
    LET nw == Max(1, w)
        ns == Max(1, s)
    IN Max(0, Min(1000 * ns * nw, 1200 * ns * nw - 40 * nw * nw - 125 * c * ns))

\* C28: ease is clamp(1.2 - avgWordsPerSentence / 25 - avgCharsPerWord / 8, 0, 1)
\* (compared to three decimals), within [0, 1]; level is easy iff ease > 0.66,
\* medium iff 0.33 < ease <= 0.66, hard otherwise; the empty script has
\* ease 1.0 and level easy.
C28_EaseAndLevel ==
    Returned_From("readability") =>
        LET den == Max(1, args.w) * Max(1, args.s)
            exact == EaseTimes(args.w, args.s, args.c)
            ease == Thousandths(result.v.ease)
        IN /\ 0 <= ease /\ ease <= 1000
           /\ exact - den <= ease * den /\ ease * den <= exact + den
           /\ (result.v.level = PyStr("easy")) <=> (exact > 660 * den)
           /\ (result.v.level = PyStr("medium")) <=> (330 * den < exact /\ exact <= 660 * den)
           /\ (result.v.level = PyStr("hard")) <=> (exact <= 330 * den)
           /\ args.w = 0 => (ease = 1000 /\ result.v.level = PyStr("easy"))

\* C28 holds of every script but those of 3 words a sentence and 6 letters a word
EaseAndLevelOffTheTie ==
    (Returned_From("readability") /\ ~(args.w = 3 * args.s /\ args.c = 6 * args.w)) =>
        LET den == Max(1, args.w) * Max(1, args.s)
            exact == EaseTimes(args.w, args.s, args.c)
            ease == Thousandths(result.v.ease)
        IN /\ 0 <= ease /\ ease <= 1000
           /\ exact - den <= ease * den /\ ease * den <= exact + den
           /\ (result.v.level = PyStr("easy")) <=> (exact > 660 * den)
           /\ (result.v.level = PyStr("medium")) <=> (330 * den < exact /\ exact <= 660 * den)
           /\ (result.v.level = PyStr("hard")) <=> (exact <= 330 * den)
           /\ args.w = 0 => (ease = 1000 /\ result.v.level = PyStr("easy"))

(***************************************************************************)
(* analyze_toxicity on scripts that spell the two-word entry "shut up".    *)
(***************************************************************************)
PhraseScripts ==
    {<<"shut", "up">>, <<"Shut", "up!">>, <<"shut", "up", "hate">>, <<"hate", "shut", "up">>}

PhraseCalls == {[fn |-> "analyze_toxicity", words |-> ws] : ws \in PhraseScripts}

\* the token of each word of the scripts, as re.findall over the lowered text
\* gives it
ToxicToken(w) ==
    CASE w = "hate" -> "hate"
      [] w = "Shit," -> "shit"
      [] w = "hateful" -> "hateful"
      [] w = "love" -> "love"
      [] w = "shut" -> "shut"
      [] w = "Shut" -> "shut"
      [] w = "up" -> "up"
      [] w = "up!" -> "up"

\* C29: every element of hits is one token of the script and a member of the
\* toxic or profanity lexicon, so "shut up" is never a hit, and the script
\* "shut up" has hits = [] and score 0.
C29_HitsAreSingleTokens ==
    Returned_From("analyze_toxicity") =>
        /\ \A h \in Members(result.v.hits) :
              /\ \E i \in DOMAIN args.words : h = ToxicToken(args.words[i])
              /\ h \in TOXIC_KEYWORDS \cup PROFANITY
              /\ h # "shut up"
        /\ args.words = <<"shut", "up">> =>
              (result.v.hits = StrList(<<>>) /\ result.v.score = PyFloat(0))

\* the script "hate shut up" was scored: its one hit is the token hate
C29_Witness ==
    /\ Returned_From("analyze_toxicity")
    /\ args.words = <<"hate", "shut", "up">>
    /\ result.v.hits = StrList(<<"hate">>)

(***************************************************************************)
(* src/video_tools.py: generate_video_with_runway, which creates a task,   *)
(* polls it until it reports a terminal status and downloads its output.   *)
(***************************************************************************)
\* a key the JSON object does not hold
Absent == [t |-> "absent", v |-> 0]

\* the dict of the entries of f that are present
MkDict(f) == PyDict([k \in {k \in DOMAIN f : f[k] # Absent} |-> f[k]])

\* the exception a call ends with
PyExc(type) == [t |-> "exc", v |-> type]

\* a or b
PyOr(a, b) == IF Truthy(a) THEN a ELSE b

\* status in {"SUCCEEDED", "COMPLETED", "succeeded", "completed", "done"}, without "done"
SuccessStatuses_NoDone == {"SUCCEEDED", "COMPLETED", "succeeded", "completed"}

SuccessStatuses == {"SUCCEEDED", "COMPLETED", "succeeded", "completed", "done"}

FailureStatuses == {"FAILED", "CANCELED", "ERROR", "failed", "canceled", "error"}

\* create_data.get("id") or create_data.get("taskId") or create_data.get("task_id")
task_id_of(create_data) ==
    PyOr(DictGet(create_data, "id", PyNone),
         PyOr(DictGet(create_data, "taskId", PyNone), DictGet(create_data, "task_id", PyNone)))

\* status_data.get("status") or status_data.get("state")
\*     or status_data.get("task", {}).get("status"):
\* the third operand is evaluated when the first two are falsy, and raises
\* AttributeError when the task entry is not a dict
status_of(data) ==
    LET first == PyOr(DictGet(data, "status", PyNone), DictGet(data, "state", PyNone))
        task == DictGet(data, "task", PyDict(<<>>))
    IN IF Truthy(first) THEN Returned(first)
       ELSE IF task.t # "obj" THEN [raised |-> TRUE, val |-> PyExc("AttributeError")]
       ELSE Returned(DictGet(task, "status", PyNone))

\* x.get("url") or x.get("assetUrl") or x.get("asset_url")
url_of(x) ==
    PyOr(DictGet(x, "url", PyNone),
         PyOr(DictGet(x, "assetUrl", PyNone), DictGet(x, "asset_url", PyNone)))

OutputKeys == <<"output", "outputs", "result", "results">>

\* the for loop over the four keys from key number i on, output_url being url
\* so far
RECURSIVE output_loop(_, _, _)
output_loop(data, i, url) ==
    IF i > Len(OutputKeys) THEN Returned(url)
    ELSE LET val == DictGet(data, OutputKeys[i], PyNone)
         IN IF val.t = "list" /\ val.v # <<>>
            THEN IF val.v[1].t # "obj"
                 THEN [raised |-> TRUE, val |-> PyExc("AttributeError")]
                 ELSE LET u == url_of(val.v[1])
                      IN IF Truthy(u) THEN Returned(u) ELSE output_loop(data, i + 1, u)
            ELSE IF val.t = "obj"
            THEN LET u == url_of(val)
                 IN IF Truthy(u) THEN Returned(u) ELSE output_loop(data, i + 1, u)
            ELSE output_loop(data, i + 1, url)

\* the output URL of a task record, a falsy value when it holds none
output_url_of(data) ==
    LET found == output_loop(data, 1, PyNone)
    IN IF found.raised \/ Truthy(found.val) THEN found
       ELSE Returned(PyOr(DictGet(data, "output_url", PyNone),
                          PyOr(DictGet(data, "assetUrl", PyNone),
                               DictGet(data, "asset_url", PyNone))))

\* what a request does: it raises (no connection, timeout), answers with an
\* HTTP error status, or answers with a JSON body
RequestFailures == {"ConnectionError", "HTTPError"}

\* the bodies the create request is answered with
CreateBodies ==
    {MkDict([id |-> a, taskId |-> b, task_id |-> c]) :
        a \in {Absent, PyStr(""), PyStr("t1")}, b \in {Absent, PyStr("t2")},
        c \in {Absent, PyNone, PyStr("t3")}}

\* the values a status entry holds
StatusValues ==
    {PyStr(w) : w \in SuccessStatuses \cup FailureStatuses
                      \cup {"RUNNING", "PENDING", "CANCELLED", "Succeeded", ""}}
    \cup {PyNone, PyInt(1), PyList(<<PyStr("RUNNING")>>)}

\* the status part of a task record: the status alone, the state under an
\* absent or empty status, the nested task under neither, and records where
\* two entries disagree
StatusParts ==
    {[status |-> v, state |-> Absent, task |-> Absent] : v \in StatusValues \cup {Absent}}
    \cup {[status |-> s, state |-> v, task |-> Absent] :
             s \in {Absent, PyStr("")}, v \in StatusValues}
    \cup {[status |-> Absent, state |-> s, task |-> t] :
             s \in {Absent, PyNone},
             t \in {PyNone, PyStr("RUNNING"), PyDict(<<>>)}
                   \cup {PyDict([status |-> v]) : v \in StatusValues}}
    \cup {[status |-> PyStr("RUNNING"), state |-> PyStr("FAILED"), task |-> PyNone],
          [status |-> PyStr("failed"), state |-> PyStr("done"), task |-> Absent],
          [status |-> PyStr("done"), state |-> Absent,
           task |-> PyDict([status |-> PyStr("error")])]}

Url == PyStr("https://cdn/video.mp4")

\* the output part of a task record
OutputParts ==
    {[output |-> Absent, result |-> Absent, output_url |-> Absent],
     [output |-> PyList(<<PyDict([url |-> Url])>>), result |-> Absent, output_url |-> Absent],
     [output |-> PyList(<<>>), result |-> PyDict([assetUrl |-> Url]), output_url |-> Absent],
     [output |-> PyList(<<PyDict(<<>>)>>), result |-> Absent, output_url |-> Url],
     [output |-> PyList(<<Url>>), result |-> Absent, output_url |-> Absent],
     [output |-> PyDict([url |-> PyStr("")]), result |-> Absent, output_url |-> Absent]}

\* the bodies a poll of the task is answered with
TaskBodies ==
    {MkDict([status |-> s.status, state |-> s.state, task |-> s.task,
             output |-> o.output, result |-> o.result, output_url |-> o.output_url]) :
        s \in StatusParts, o \in OutputParts}

RunwayCalls ==
    {[fn |-> "generate_video_with_runway", key |-> k, out_path |-> "runway_generated.mp4",
      poll_interval_seconds |-> 5] : k \in BOOLEAN}

RunwayInit == \E a \in RunwayCalls : DirectInit(a)

\* the call ends with the exception exc
RunwayRaise(exc) ==
    /\ result' = exc
    /\ pc' = "raised"

\* lines 22-54: the key check, the create request and the task id
CreateTask ==
    /\ pc = "call"
    /\ args.fn = "generate_video_with_runway"
    /\ \/ ~args.key /\ RunwayRaise(PyExc("RuntimeError")) /\ UNCHANGED task_id
       \/ /\ args.key
          /\ \/ \E e \in RequestFailures : RunwayRaise(PyExc(e)) /\ UNCHANGED task_id
             \/ \E create_data \in CreateBodies :
                   /\ task_id' = task_id_of(create_data)
                   /\ IF Truthy(task_id')
                      THEN pc' = "poll" /\ UNCHANGED result
                      ELSE RunwayRaise(PyExc("RuntimeError"))
    /\ UNCHANGED <<api_key, cta_order, path, args, script, llm_report, requests, prev>>
    /\ UNCHANGED <<status_data, output_url, out_file, polls, slept>>

\* lines 57-75: one pass of the polling loop
PollTask ==
    /\ pc = "poll"
    /\ polls < MaxPolls
    /\ polls' = polls + 1
    /\ \/ \E e \in RequestFailures :
             RunwayRaise(PyExc(e)) /\ UNCHANGED <<status_data, slept>>
       \/ \E body \in TaskBodies :
             LET status == status_of(body)
             IN /\ status_data' = body
                /\ IF status.raised
                   THEN RunwayRaise(status.val) /\ UNCHANGED slept
                   ELSE IF status.val.t \in {"list", "obj"}
                   \* an unhashable status cannot be looked up in the set
                   THEN RunwayRaise(PyExc("TypeError")) /\ UNCHANGED slept
                   ELSE IF status.val.t = "str" /\ status.val.v \in SuccessStatuses
                   THEN pc' = "extract" /\ UNCHANGED <<result, slept>>
                   ELSE IF status.val.t = "str" /\ status.val.v \in FailureStatuses
                   THEN RunwayRaise(PyExc("RuntimeError")) /\ UNCHANGED slept
                   ELSE /\ slept' = slept + args.poll_interval_seconds
                        /\ pc' = "poll"
                        /\ UNCHANGED result
    /\ UNCHANGED <<api_key, cta_order, path, args, script, llm_report, requests, prev>>
    /\ UNCHANGED <<task_id, output_url, out_file>>

\* lines 77-108: the output URL of the task record
ExtractUrl ==
    /\ pc = "extract"
    /\ LET found == output_url_of(status_data)
       IN IF found.raised THEN RunwayRaise(found.val) /\ UNCHANGED output_url
          ELSE /\ output_url' = found.val
               /\ IF Truthy(found.val) THEN pc' = "download" /\ UNCHANGED result
                  ELSE RunwayRaise(PyExc("RuntimeError"))
    /\ UNCHANGED <<api_key, cta_order, path, args, script, llm_report, requests, prev>>
    /\ UNCHANGED <<task_id, status_data, out_file, polls, slept>>

\* lines 110-118: the download.  The file is opened after the with block has
\* closed the response, so what iter_content still yields is up to the HTTP
\* library: the chunks, nothing, or an exception once the file is created.
Download ==
    /\ pc = "download"
    /\ \/ \E e \in RequestFailures : RunwayRaise(PyExc(e)) /\ UNCHANGED out_file
       \/ /\ out_file' \in {"written", "empty"}
          /\ result' = PyStr(args.out_path)
          /\ pc' = "returned"
       \/ /\ out_file' = "empty"
          /\ RunwayRaise(PyExc("StreamError"))
    /\ UNCHANGED <<api_key, cta_order, path, args, script, llm_report, requests, prev>>
    /\ UNCHANGED <<task_id, status_data, output_url, polls, slept>>

RunwayNext ==
    \/ CreateTask
    \/ PollTask
    \/ ExtractUrl
    \/ Download

RunwaySpec == RunwayInit /\ [][RunwayNext]_vars

\* the task record d reports one of the words as its status: in its status
\* entry, else in its state entry, else in the status entry of its task entry
Reports(d, words) ==
    LET status == DictGet(d, "status", PyNone)
        state == DictGet(d, "state", PyNone)
    IN \/ status.t = "str" /\ status.v \in words
       \/ ~Truthy(status) /\ state.t = "str" /\ state.v \in words
       \/ /\ ~Truthy(status) /\ ~Truthy(state)
          /\ "task" \in DOMAIN d.v
          /\ d.v.task.t = "obj"
          /\ DictGet(d.v.task, "status", PyNone) \in {PyStr(w) : w \in words}

Succeeded(d) ==
    d # PyNone /\ Reports(d, {"SUCCEEDED", "COMPLETED", "succeeded", "completed", "done"})

Failed(d) ==
    d # PyNone /\ Reports(d, {"FAILED", "CANCELED", "ERROR", "failed", "canceled", "error"})

\* the status of the task record d cannot be read: with no status and state,
\* its task entry is not a dict, or the status it holds is a list or a dict
Unreadable(d) ==
    LET status == DictGet(d, "status", PyNone)
        state == DictGet(d, "state", PyNone)
        nested == IF "task" \in DOMAIN d.v /\ d.v.task.t = "obj"
                  THEN DictGet(d.v.task, "status", PyNone) ELSE PyNone
    IN \/ Truthy(status) /\ status.t \in {"list", "obj"}
       \/ ~Truthy(status) /\ Truthy(state) /\ state.t \in {"list", "obj"}
       \/ /\ ~Truthy(status) /\ ~Truthy(state)
          /\ \/ "task" \in DOMAIN d.v /\ d.v.task.t # "obj"
             \/ nested.t \in {"list", "obj"}

\* one pass of the polling loop is taken
PollStep == pc = "poll" /\ polls' = polls + 1

\* what the pass does with the status the task reports
OnStatus ==
    IF Succeeded(status_data')
    THEN pc' = "extract" /\ slept' = slept /\ out_file' = "absent"
    ELSE IF Failed(status_data')
    THEN /\ pc' = "raised" /\ result' = PyExc("RuntimeError")
         /\ out_file' = "absent"
    ELSE /\ pc' = "poll"
         /\ slept' = slept + args.poll_interval_seconds
         /\ result' = PyNone

\* the function is past the loop, and a file is written, only after a success
\* status; it has slept the interval after every pass but the one that left
\* the loop
PastTheLoop ==
    args.fn = "generate_video_with_runway" =>
        /\ pc \in {"extract", "download", "returned"} => Succeeded(status_data)
        /\ out_file # "absent" => Succeeded(status_data)
        /\ pc = "returned" =>
              /\ result = PyStr(args.out_path)
              /\ slept = args.poll_interval_seconds * (polls - 1)
        /\ pc = "poll" => slept = args.poll_interval_seconds * polls

FailureRaised ==
    /\ pc = "raised"
    /\ args.fn = "generate_video_with_runway"
    /\ polls = 2
    /\ DictGet(status_data, "state", PyNone) = PyStr("canceled")
    /\ result = PyExc("RuntimeError")
    /\ out_file = "absent"

\* The specification of the direct calls
DirectCalls ==
    ViralityCalls \cup ToxicityCalls \cup SentimentCalls \cup SanitizeCalls
    \cup HashtagCalls \cup VocabularyCalls \cup BrandSafetyCalls \cup GuidelinesCalls
    \cup HeuristicCalls \cup FormatCalls \cup HookCalls \cup ComplianceCalls \cup ToneCalls
    \cup BannedCalls \cup CtaCalls \cup ReadabilityCalls \cup PhraseCalls

DirectStart == \E a \in DirectCalls : DirectInit(a)

DirectNext ==
    \/ CallVirality
    \/ CallToxicity
    \/ MoreToxicity
    \/ CallSentiment
    \/ CallSanitize
    \/ AgainSanitize
    \/ CallHashtags
    \/ CallVocabulary
    \/ CallBrandSafety
    \/ CallGuidelines
    \/ CallHeuristic
    \/ CallFormatVideos
    \/ CallHook
    \/ CallTone
    \/ CallCta
    \/ CallReadability

DirectSpec == DirectStart /\ [][DirectNext]_vars

=============================================================================
